---- MODULE Spec2Model ----
(***************************************************************************)
(* todd: a terminal JSON browser/editor.  The model covers the positional  *)
(* document core: the flattener (App::insert_data_to_tree), the two path   *)
(* resolvers of utils/json.rs, the edit submissions of app.rs and the      *)
(* event loop that drives them.                                            *)
(*                                                                         *)
(* Texts are sequences of one-character strings.  A serde_json::Value is a *)
(* record tagged by t: "obj" (e: sequence of [k, v] entries in insertion   *)
(* order), "arr" (e: sequence of values), "num", "str", "bool", "null".    *)
(* An Option is a sequence of length 0 (None) or 1 (Some).                 *)
(***************************************************************************)
EXTENDS Integers, Sequences, FiniteSets, TLC

VARIABLES
    json,                 \* App.json
    json_pairs,           \* App.json_pairs
    lines_count,          \* App.lines_count
    line_at_cursor,       \* App.line_at_cursor
    key_input,            \* App.key_input.content
    value_input,          \* App.value_input.content
    key_focused,          \* App.key_input.is_focused
    value_focused,        \* App.value_input.is_focused
    current_screen,       \* App.current_screen
    currently_editing,    \* App.currently_editing (Option)
    editing_mode,         \* App.editing_mode
    message_to_report,    \* App.message_to_report.message (its leading words)
    viewport_lines_count, \* App.viewport_lines_count
    vertical_scroll,      \* App.vertical_scroll
    scrolled_so_far,      \* App.scrolled_so_far
    search_widget,        \* App.search_widget.content
    search_matches,       \* App.search_matches
    area_height,          \* layout[0].height: the terminal's rows less the footer
    overflow_checks,      \* build profile: TRUE when usize arithmetic traps
    panicked,             \* the process has aborted with a panic
    pc,                   \* position in App::run: "draw" or "event"
    edits,                \* number of submissions handled so far
    last                  \* the operation handled last, with what it was given

vars == <<json, json_pairs, lines_count, line_at_cursor, key_input, value_input,
          key_focused, value_focused, current_screen, currently_editing,
          editing_mode, message_to_report, viewport_lines_count, vertical_scroll,
          scrolled_so_far, search_widget, search_matches, area_height,
          overflow_checks, panicked, pc, edits, last>>

-----------------------------------------------------------------------------
(* serde_json::Value constructors *)

None == <<>>
Some(x) == <<x>>

Obj(entries) == [t |-> "obj", e |-> entries]
Arr(items) == [t |-> "arr", e |-> items]
KV(key, value) == [k |-> key, v |-> value]
PosInt(n) == [t |-> "num", kind |-> "PosInt", m |-> n, x |-> 0]
NegInt(n) == [t |-> "num", kind |-> "NegInt", m |-> n, x |-> 0]
Float(mant, exp) == [t |-> "num", kind |-> "Float", m |-> mant, x |-> exp]
Str(s) == [t |-> "str", s |-> s]
Bool(b) == [t |-> "bool", b |-> b]
Null == [t |-> "null"]

is_object(value) == value.t = "obj"
is_array(value) == value.t = "arr"
IsContainer(value) == is_object(value) \/ is_array(value)

-----------------------------------------------------------------------------
(* The flattener *)

ValuePair(ind, key, value, arr) ==
    [indentation |-> ind, key |-> key, value |-> value, is_array_value |-> arr]

RECURSIVE walk_data_tree_for_json(_, _, _)
RECURSIVE insert_data_to_tree(_, _)
RECURSIVE WalkObjectEntries(_, _, _)
RECURSIVE WalkArrayItems(_, _, _)

\* for (key, value) in data.as_object().unwrap() { walk(key, value, ..) }
WalkObjectEntries(entries, i, ind) ==
    IF i > Len(entries) THEN [pairs |-> <<>>, count |-> 0]
    ELSE LET h == walk_data_tree_for_json(entries[i].k, entries[i].v, ind)
             r == WalkObjectEntries(entries, i + 1, ind)
         IN [pairs |-> h.pairs \o r.pairs, count |-> h.count + r.count]

\* A flattener that puts a blank separator row before an object held in an array.
WalkArrayItemsSeparated(items, i, ind) ==
    IF i > Len(items) THEN [pairs |-> <<>>, count |-> 0]
    ELSE LET h == walk_data_tree_for_json(<<>>, items[i], ind)
             r == WalkArrayItems(items, i + 1, ind)
             sep == IF is_object(items[i])
                    THEN <<ValuePair(ind, <<>>, None, FALSE)>> ELSE <<>>
         IN [pairs |-> sep \o h.pairs \o r.pairs,
             count |-> Len(sep) + h.count + r.count]

\* A loop that hands every element the key "0" in place of "".
WalkArrayItemsKeyed(items, i, ind) ==
    IF i > Len(items) THEN [pairs |-> <<>>, count |-> 0]
    ELSE LET h == walk_data_tree_for_json(<<"0">>, items[i], ind)
             r == WalkArrayItems(items, i + 1, ind)
         IN [pairs |-> h.pairs \o r.pairs, count |-> h.count + r.count]

\* for value in array { walk("", value, ..) }
WalkArrayItems(items, i, ind) ==
    IF i > Len(items) THEN [pairs |-> <<>>, count |-> 0]
    ELSE LET h == walk_data_tree_for_json(<<>>, items[i], ind)
             r == WalkArrayItems(items, i + 1, ind)
         IN [pairs |-> h.pairs \o r.pairs, count |-> h.count + r.count]

\* A walk that adds one to *lines_count for an array and nothing for its items.
walk_data_tree_counting_arrays_once(key, value, ind) ==
    IF is_object(value) THEN
        IF Len(value.e) = 0
        THEN [pairs |-> <<ValuePair(ind, key, None, FALSE)>>, count |-> 1]
        ELSE LET r == insert_data_to_tree(value, ind)
             IN [pairs |-> <<ValuePair(ind, key, None, FALSE)>> \o r.pairs,
                 count |-> 1 + r.count]
    ELSE IF is_array(value) THEN
        LET r == WalkArrayItems(value.e, 1, ind + 1)
        IN [pairs |-> <<ValuePair(ind, key, None, FALSE)>> \o r.pairs, count |-> 1]
    ELSE [pairs |-> <<ValuePair(ind, key, Some(value), key = <<>>)>>, count |-> 1]

\* A walk that shows an empty object or array by a header and a blank row under it.
walk_data_tree_with_blank_rows(key, value, ind) ==
    IF IsContainer(value) /\ Len(value.e) = 0
    THEN [pairs |-> <<ValuePair(ind, key, None, FALSE),
                      ValuePair(ind + 1, <<>>, None, FALSE)>>,
          count |-> 2]
    ELSE IF is_object(value) THEN
        LET r == insert_data_to_tree(value, ind)
        IN [pairs |-> <<ValuePair(ind, key, None, FALSE)>> \o r.pairs,
            count |-> 1 + r.count]
    ELSE IF is_array(value) THEN
        LET r == WalkArrayItems(value.e, 1, ind + 1)
        IN [pairs |-> <<ValuePair(ind, key, None, FALSE)>> \o r.pairs,
            count |-> 1 + r.count]
    ELSE [pairs |-> <<ValuePair(ind, key, Some(value), key = <<>>)>>, count |-> 1]

\* Returns the rows pushed and the amount added to *lines_count.
walk_data_tree_for_json(key, value, ind) ==
    IF is_object(value) THEN
        IF Len(value.e) = 0
        THEN [pairs |-> <<ValuePair(ind, key, None, FALSE)>>, count |-> 1]
        ELSE LET r == insert_data_to_tree(value, ind)
             IN [pairs |-> <<ValuePair(ind, key, None, FALSE)>> \o r.pairs,
                 count |-> 1 + r.count]
    ELSE IF is_array(value) THEN
        LET r == WalkArrayItems(value.e, 1, ind + 1)
        IN [pairs |-> <<ValuePair(ind, key, None, FALSE)>> \o r.pairs,
            count |-> 1 + r.count]
    ELSE [pairs |-> <<ValuePair(ind, key, Some(value), key = <<>>)>>, count |-> 1]

\* A flattener that leaves out indentation_counter += 1.
insert_data_to_tree_unindented(data, indentation_counter) ==
    IF is_object(data)
    THEN [ok |-> TRUE] @@ WalkObjectEntries(data.e, 1, indentation_counter)
    ELSE IF is_array(data)
    THEN [ok |-> TRUE] @@ WalkArrayItems(data.e, 1, indentation_counter)
    ELSE [ok |-> FALSE, pairs |-> <<>>, count |-> 0]

\* ok is FALSE where data.as_array().unwrap() panics (data is a scalar).
insert_data_to_tree(data, indentation_counter) ==
    LET ind == indentation_counter + 1
    IN IF is_object(data)
       THEN [ok |-> TRUE] @@ WalkObjectEntries(data.e, 1, ind)
       ELSE IF is_array(data)
       THEN [ok |-> TRUE] @@ WalkArrayItems(data.e, 1, ind)
       ELSE [ok |-> FALSE, pairs |-> <<>>, count |-> 0]

-----------------------------------------------------------------------------
(* utils/json.rs: get_nested_object_to_insert_into.  Paths hold the        *)
(* zero-based indices of the source; a mutable reference into the tree is  *)
(* the path from the root to the value it borrows.                         *)

RECURSIVE find_path(_, _, _)
RECURSIVE FindPathInObject(_, _, _, _)
RECURSIVE FindPathInArray(_, _, _, _)

\* for (i, (_, v)) in map.iter().enumerate(); i is zero-based
FindPathInObject(current, target, entries, i) ==
    IF i >= Len(entries) THEN [found |-> FALSE, path |-> <<>>, current |-> current]
    ELSE IF current = target THEN [found |-> TRUE, path |-> <<i>>, current |-> current]
    ELSE LET v == entries[i + 1].v
         IN IF IsContainer(v)
            THEN LET r == find_path(current + 1, target, v)
                 IN IF r.found
                    THEN [found |-> TRUE, path |-> <<i>> \o r.path, current |-> r.current]
                    ELSE FindPathInObject(r.current, target, entries, i + 1)
            ELSE FindPathInObject(current + 1, target, entries, i + 1)

\* A search that gives a position to the array elements that are objects or
\* arrays as well.
FindPathInArrayCountingAll(current, target, items, i) ==
    IF i >= Len(items) THEN [found |-> FALSE, path |-> <<>>, current |-> current]
    ELSE IF current = target THEN [found |-> TRUE, path |-> <<i>>, current |-> current]
    ELSE LET v == items[i + 1]
         IN IF IsContainer(v)
            THEN LET r == find_path(current + 1, target, v)
                 IN IF r.found
                    THEN [found |-> TRUE, path |-> <<i>> \o r.path, current |-> r.current]
                    ELSE FindPathInArray(r.current, target, items, i + 1)
            ELSE FindPathInArray(current + 1, target, items, i + 1)

\* for (i, v) in arr.iter().enumerate(); i is zero-based
FindPathInArray(current, target, items, i) ==
    IF i >= Len(items) THEN [found |-> FALSE, path |-> <<>>, current |-> current]
    ELSE LET v == items[i + 1]
         IN IF current = target /\ ~IsContainer(v)
            THEN [found |-> TRUE, path |-> <<i>>, current |-> current]
            ELSE IF IsContainer(v)
            THEN LET r == find_path(current, target, v)
                 IN IF r.found
                    THEN [found |-> TRUE, path |-> <<i>> \o r.path, current |-> r.current]
                    ELSE FindPathInArray(r.current, target, items, i + 1)
            ELSE FindPathInArray(current + 1, target, items, i + 1)

find_path(current, target, value) ==
    IF is_object(value) THEN FindPathInObject(current, target, value.e, 0)
    ELSE IF is_array(value) THEN FindPathInArray(current, target, value.e, 0)
    ELSE [found |-> FALSE, path |-> <<>>, current |-> current]

\* The child of a container at a zero-based index, as an Option.
ChildAt(value, i) ==
    IF is_object(value) /\ i < Len(value.e) THEN Some(value.e[i + 1].v)
    ELSE IF is_array(value) /\ i < Len(value.e) THEN Some(value.e[i + 1])
    ELSE None

RECURSIVE follow_path(_, _)
\* A follow_path that does not descend: the root with the path's last index.
follow_path_shallow(obj, path) ==
    IF Len(path) = 0 THEN [some |-> FALSE, ref |-> <<>>, index |-> 0]
    ELSE [some |-> TRUE, ref |-> <<>>, index |-> path[Len(path)]]

\* (Option<&mut Value>, usize): ref is the borrowed value's place under obj.
follow_path(obj, path) ==
    IF Len(path) = 0 THEN [some |-> FALSE, ref |-> <<>>, index |-> 0]
    ELSE IF Len(path) = 1 THEN [some |-> TRUE, ref |-> <<>>, index |-> path[1]]
    ELSE LET child == ChildAt(obj, path[1])
         IN IF child = None THEN [some |-> FALSE, ref |-> <<>>, index |-> 0]
            ELSE LET r == follow_path(child[1], Tail(path))
                 IN IF r.some
                    THEN [some |-> TRUE, ref |-> <<path[1]>> \o r.ref, index |-> r.index]
                    ELSE r

\* A resolver that falls back to the root's first position when nothing is found.
get_nested_object_or_root(steps, obj) ==
    LET p == find_path(0, steps, obj)
    IN IF p.found THEN follow_path(obj, p.path)
       ELSE [some |-> TRUE, ref |-> <<>>, index |-> 0]

get_nested_object_to_insert_into(steps, obj) ==
    LET p == find_path(0, steps, obj)
    IN IF p.found THEN follow_path(obj, p.path)
       ELSE [some |-> FALSE, ref |-> <<>>, index |-> 0]

RECURSIVE NodeAt(_, _)
\* Dereferences a reference obtained from follow_path.
NodeAt(root, ref) ==
    IF Len(ref) = 0 THEN root ELSE NodeAt(ChildAt(root, ref[1])[1], Tail(ref))

-----------------------------------------------------------------------------
(* utils/json.rs: get_current_value_at_position *)

RECURSIVE find_value_path(_, _, _)
RECURSIVE FindValuePathInObject(_, _, _, _)
RECURSIVE FindValuePathInArray(_, _, _, _)

NoValuePath(current) ==
    [found |-> FALSE, path |-> <<>>, key |-> None, value |-> None, current |-> current]

\* An object arm that gives an entry holding an object or array no position
\* of its own, as the array arm does for its elements.
FindValuePathInObjectUncounted(current, target, entries, i) ==
    IF i >= Len(entries) THEN NoValuePath(current)
    ELSE LET v == entries[i + 1].v
         IN IF IsContainer(v)
            THEN LET r == find_value_path(current, target, v)
                 IN IF r.found
                    THEN [r EXCEPT !.path = <<i>> \o r.path]
                    ELSE FindValuePathInObject(r.current, target, entries, i + 1)
            ELSE IF current = target
            THEN [found |-> TRUE, path |-> <<i>>, key |-> Some(entries[i + 1].k),
                  value |-> Some(v), current |-> current]
            ELSE FindValuePathInObject(current + 1, target, entries, i + 1)

FindValuePathInObject(current, target, entries, i) ==
    IF i >= Len(entries) THEN NoValuePath(current)
    ELSE IF current = target
    THEN [found |-> TRUE, path |-> <<i>>, key |-> Some(entries[i + 1].k),
          value |-> Some(entries[i + 1].v), current |-> current]
    ELSE LET v == entries[i + 1].v
         IN IF IsContainer(v)
            THEN LET r == find_value_path(current + 1, target, v)
                 IN IF r.found
                    THEN [r EXCEPT !.path = <<i>> \o r.path]
                    ELSE FindValuePathInObject(r.current, target, entries, i + 1)
            ELSE FindValuePathInObject(current + 1, target, entries, i + 1)

FindValuePathInArray(current, target, items, i) ==
    IF i >= Len(items) THEN NoValuePath(current)
    ELSE LET v == items[i + 1]
         IN IF current = target /\ ~IsContainer(v)
            THEN [found |-> TRUE, path |-> <<i>>, key |-> None,
                  value |-> Some(v), current |-> current]
            ELSE IF IsContainer(v)
            THEN LET r == find_value_path(current, target, v)
                 IN IF r.found
                    THEN [r EXCEPT !.path = <<i>> \o r.path]
                    ELSE FindValuePathInArray(r.current, target, items, i + 1)
            ELSE FindValuePathInArray(current + 1, target, items, i + 1)

find_value_path(current, target, value) ==
    IF is_object(value) THEN FindValuePathInObject(current, target, value.e, 0)
    ELSE IF is_array(value) THEN FindValuePathInArray(current, target, value.e, 0)
    ELSE NoValuePath(current)

RECURSIVE follow_path_to_parent(_, _)
\* Option<&Value>: ref is the parent's place under obj.
follow_path_to_parent(obj, path) ==
    IF Len(path) <= 1 THEN [some |-> TRUE, ref |-> <<>>]
    ELSE LET child == ChildAt(obj, path[1])
         IN IF child = None THEN [some |-> FALSE, ref |-> <<>>]
            ELSE LET r == follow_path_to_parent(child[1], Tail(path))
                 IN IF r.some THEN [some |-> TRUE, ref |-> <<path[1]>> \o r.ref]
                    ELSE r

\* (parent, key, value, index); parent is given by some/ref.
get_current_value_at_position(steps, obj) ==
    LET p == find_value_path(0, steps, obj)
    IN IF p.found
       THEN LET parent == follow_path_to_parent(obj, p.path)
            IN [some |-> parent.some, ref |-> parent.ref, key |-> p.key,
                value |-> p.value,
                index |-> IF Len(p.path) = 0 THEN 0 ELSE p.path[Len(p.path)]]
       ELSE [some |-> FALSE, ref |-> <<>>, key |-> None, value |-> None, index |-> 0]

-----------------------------------------------------------------------------
(* Text conversions used by the edit submissions.  str::parse::<f64> and   *)
(* <serde_json::Number as FromStr> are modelled by the grammars they       *)
(* accept; range limits of u64/i64/f64 are beyond the texts modelled.      *)

Digit == {"0", "1", "2", "3", "4", "5", "6", "7", "8", "9"}

DigitVal(c) ==
    CASE c = "0" -> 0 [] c = "1" -> 1 [] c = "2" -> 2 [] c = "3" -> 3
      [] c = "4" -> 4 [] c = "5" -> 5 [] c = "6" -> 6 [] c = "7" -> 7
      [] c = "8" -> 8 [] c = "9" -> 9

DigitChar(d) ==
    CASE d = 0 -> "0" [] d = 1 -> "1" [] d = 2 -> "2" [] d = 3 -> "3"
      [] d = 4 -> "4" [] d = 5 -> "5" [] d = 6 -> "6" [] d = 7 -> "7"
      [] d = 8 -> "8" [] d = 9 -> "9"

\* char::to_ascii_lowercase on the letters the number grammars look at
Lower(c) ==
    CASE c = "E" -> "e" [] c = "I" -> "i" [] c = "N" -> "n" [] c = "F" -> "f"
      [] c = "A" -> "a" [] c = "T" -> "t" [] c = "Y" -> "y" [] OTHER -> c

LowerText(s) == [i \in 1..Len(s) |-> Lower(s[i])]

AllDigits(s) == \A i \in 1..Len(s) : s[i] \in Digit

\* Position of the first character of s that is in cs, 0 when there is none.
IndexOf(s, cs) ==
    IF \E i \in 1..Len(s) : s[i] \in cs
    THEN CHOOSE i \in 1..Len(s) : s[i] \in cs /\ \A j \in 1..(i - 1) : s[j] \notin cs
    ELSE 0

\* A number text split into sign, integer digits, fraction and exponent:
\* body is the text after the sign, ePos and dot the one-based positions of
\* the exponent letter in body and of the point in mantissa (0 for none).
NumberPartsAt(sign, body, ePos, mantissa, expText, dot) ==
    [sign |-> sign,
     body |-> body,
     int |-> IF dot = 0 THEN mantissa ELSE SubSeq(mantissa, 1, dot - 1),
     hasDot |-> dot # 0,
     frac |-> IF dot = 0 THEN <<>> ELSE SubSeq(mantissa, dot + 1, Len(mantissa)),
     hasExp |-> ePos # 0,
     expSign |-> IF Len(expText) > 0 /\ expText[1] \in {"+", "-"}
                 THEN expText[1] ELSE "",
     expDigits |-> IF Len(expText) > 0 /\ expText[1] \in {"+", "-"}
                   THEN Tail(expText) ELSE expText]

NumberPartsSplit(sign, body, ePos, mantissa, expText) ==
    NumberPartsAt(sign, body, ePos, mantissa, expText, IndexOf(mantissa, {"."}))

NumberPartsOf(sign, body, ePos) ==
    NumberPartsSplit(sign, body, ePos,
                     IF ePos = 0 THEN body ELSE SubSeq(body, 1, ePos - 1),
                     IF ePos = 0 THEN <<>> ELSE SubSeq(body, ePos + 1, Len(body)))

NumberPartsBody(sign, body) == NumberPartsOf(sign, body, IndexOf(body, {"e", "E"}))

NumberParts(s) ==
    IF Len(s) > 0 /\ s[1] \in {"+", "-"}
    THEN NumberPartsBody(s[1], Tail(s))
    ELSE NumberPartsBody("", s)

\* The grammar of f64::from_str on the parts p of a text
F64Grammar(p) ==
    \/ LowerText(p.body) \in {<<"i", "n", "f">>, <<"n", "a", "n">>,
                              <<"i", "n", "f", "i", "n", "i", "t", "y">>}
    \/ /\ AllDigits(p.int) /\ AllDigits(p.frac)
       /\ Len(p.int) + Len(p.frac) > 0
       /\ p.hasExp => (Len(p.expDigits) > 0 /\ AllDigits(p.expDigits))

\* s.parse::<f64>().is_ok()
ParsesAsF64(s) == F64Grammar(NumberParts(s))

\* The JSON number grammar on the parts p of a text
JsonNumberGrammar(p) ==
    /\ p.sign # "+"
    /\ Len(p.int) > 0 /\ AllDigits(p.int)
    /\ Len(p.int) > 1 => p.int[1] # "0"
    /\ p.hasDot => (Len(p.frac) > 0 /\ AllDigits(p.frac))
    /\ p.hasExp => (Len(p.expDigits) > 0 /\ AllDigits(p.expDigits))

\* s.parse::<serde_json::Number>().is_ok()
ParsesAsNumber(s) == JsonNumberGrammar(NumberParts(s))

\* s.parse::<bool>().is_ok()
ParsesAsBool(s) == s \in {<<"t", "r", "u", "e">>, <<"f", "a", "l", "s", "e">>}

RECURSIVE DigitsValue(_)
DigitsValue(s) ==
    IF Len(s) = 0 THEN 0
    ELSE DigitsValue(SubSeq(s, 1, Len(s) - 1)) * 10 + DigitVal(s[Len(s)])

RECURSIVE NormalFloat(_, _)
\* mant * 10^exp with no trailing zero left in mant: one value, one form
NormalFloat(mant, exp) ==
    IF mant = 0 THEN Float(0, 0)
    ELSE IF mant % 10 = 0 THEN NormalFloat(mant \div 10, exp + 1)
    ELSE Float(mant, exp)

\* The serde_json::Number with magnitude digits mag and decimal exponent ex
NumberOf(p, mag, ex) ==
    IF p.hasDot \/ p.hasExp
    THEN NormalFloat(IF p.sign = "-" THEN 0 - mag ELSE mag, ex - Len(p.frac))
    ELSE IF p.sign = "-" THEN (IF mag = 0 THEN Float(0, 0) ELSE NegInt(0 - mag))
    ELSE PosInt(mag)

NumberOfParts(p) ==
    NumberOf(p, DigitsValue(p.int \o p.frac),
             IF p.expSign = "-" THEN 0 - DigitsValue(p.expDigits)
             ELSE DigitsValue(p.expDigits))

\* The serde_json::Number a JSON number text denotes.
NumberValue(s) == NumberOfParts(NumberParts(s))

\* Value::Number(s.parse().unwrap()): the unwrap panics when s is no JSON number.
\* Result: [ok |-> the conversion returned, value |-> the Value]
CoerceForInsert(s) ==
    IF ParsesAsF64(s)
    THEN IF ParsesAsNumber(s) THEN [ok |-> TRUE, value |-> NumberValue(s)]
         ELSE [ok |-> FALSE, value |-> Null]
    ELSE IF ParsesAsBool(s) THEN [ok |-> TRUE, value |-> Bool(s = <<"t", "r", "u", "e">>)]
    ELSE [ok |-> TRUE, value |-> Str(s)]

CoerceForUpdate(s) ==
    IF ParsesAsF64(s)
    THEN IF ParsesAsNumber(s) THEN [ok |-> TRUE, value |-> NumberValue(s)]
         ELSE [ok |-> FALSE, value |-> Null]
    ELSE IF ParsesAsBool(s) THEN [ok |-> TRUE, value |-> Bool(s = <<"t", "r", "u", "e">>)]
    ELSE IF s = <<"n", "u", "l", "l">> THEN [ok |-> TRUE, value |-> Null]
    ELSE [ok |-> TRUE, value |-> Str(s)]

RECURSIVE NatToText(_)
NatToText(n) ==
    IF n < 10 THEN <<DigitChar(n)>> ELSE NatToText(n \div 10) \o <<DigitChar(n % 10)>>

Zeros(n) == [i \in 1..n |-> "0"]

\* The digits ds of a magnitude written with decimal exponent x
Positional(ds, x) ==
    IF x >= 0 THEN ds \o Zeros(x) \o <<".", "0">>
    ELSE IF Len(ds) > 0 - x
    THEN SubSeq(ds, 1, Len(ds) + x) \o <<".">> \o SubSeq(ds, Len(ds) + x + 1, Len(ds))
    ELSE <<"0", ".">> \o Zeros((0 - x) - Len(ds)) \o ds

UnsignedNumberToText(v, ds) == IF v.kind # "Float" THEN ds ELSE Positional(ds, v.x)

\* Number::to_string: integers as digits; a float in positional notation
\* with at least one fraction digit.
NumberToText(v) ==
    IF v.m < 0 THEN <<"-">> \o UnsignedNumberToText(v, NatToText(0 - v.m))
    ELSE UnsignedNumberToText(v, NatToText(v.m))

\* serde_json::to_string: compact JSON, entries in the map's order (the
\* sample strings and keys hold no character that is escaped)
RECURSIVE serde_json_to_string(_)
RECURSIVE JoinMembers(_, _)
JoinMembers(v, i) ==
    IF i > Len(v.e) THEN <<>>
    ELSE (IF i > 1 THEN <<",">> ELSE <<>>)
         \o (IF v.t = "obj"
             THEN <<"\"">> \o v.e[i].k \o <<"\"", ":">> \o serde_json_to_string(v.e[i].v)
             ELSE serde_json_to_string(v.e[i]))
         \o JoinMembers(v, i + 1)

serde_json_to_string(v) ==
    CASE v.t = "obj" -> <<"{">> \o JoinMembers(v, 1) \o <<"}">>
      [] v.t = "arr" -> <<"[">> \o JoinMembers(v, 1) \o <<"]">>
      [] v.t = "str" -> <<"\"">> \o v.s \o <<"\"">>
      [] v.t = "num" -> NumberToText(v)
      [] v.t = "bool" -> IF v.b THEN <<"t", "r", "u", "e">> ELSE <<"f", "a", "l", "s", "e">>
      [] v.t = "null" -> <<"n", "u", "l", "l">>

\* The text start_editing_existing_value puts in the value input.
ValueToInputText(v) ==
    CASE v.t = "str" -> v.s
      [] v.t = "num" -> NumberToText(v)
      [] v.t = "bool" -> IF v.b THEN <<"t", "r", "u", "e">> ELSE <<"f", "a", "l", "s", "e">>
      [] v.t = "null" -> <<"n", "u", "l", "l">>
      [] OTHER -> serde_json_to_string(v)

-----------------------------------------------------------------------------
(* serde_json::Map with preserve_order (an IndexMap) as the edits use it.  *)
(* Results that can panic are [ok |-> no panic, e |-> the entries].        *)

Keys(entries) == [i \in 1..Len(entries) |-> entries[i].k]

\* One-based position of key in entries, 0 when absent.
KeyPos(entries, key) ==
    IF \E i \in 1..Len(entries) : entries[i].k = key
    THEN CHOOSE i \in 1..Len(entries) : entries[i].k = key
    ELSE 0

RemoveAt(s, i) == SubSeq(s, 1, i - 1) \o SubSeq(s, i + 1, Len(s))
InsertAt(s, i, x) == SubSeq(s, 1, i - 1) \o <<x>> \o SubSeq(s, i, Len(s))

\* map.insert(key, value): replaces in place, or appends
MapInsert(entries, key, value) ==
    LET p == KeyPos(entries, key)
    IN IF p = 0 THEN Append(entries, KV(key, value))
       ELSE [entries EXCEPT ![p] = KV(key, value)]

\* map.shift_remove(key)
MapShiftRemove(entries, key) ==
    LET p == KeyPos(entries, key)
    IN IF p = 0 THEN entries ELSE RemoveAt(entries, p)

\* map.shift_insert(index, key, value), index zero-based: an existing key is
\* moved to index (which must be < len), a new one is inserted there (<= len).
MapShiftInsert(entries, index, key, value) ==
    LET p == KeyPos(entries, key)
    IN IF p = 0
       THEN IF index > Len(entries) THEN [ok |-> FALSE, e |-> entries]
            ELSE [ok |-> TRUE, e |-> InsertAt(entries, index + 1, KV(key, value))]
       ELSE IF index >= Len(entries) THEN [ok |-> FALSE, e |-> entries]
            ELSE [ok |-> TRUE,
                  e |-> InsertAt(RemoveAt(entries, p), index + 1, KV(key, value))]

RECURSIVE ReplaceAt(_, _, _)
\* Writes new through the mutable reference ref into root.
ReplaceAt(root, ref, new) ==
    IF Len(ref) = 0 THEN new
    ELSE LET i == ref[1] + 1
         IN IF is_object(root)
            THEN Obj([root.e EXCEPT ![i] =
                          KV(root.e[i].k, ReplaceAt(root.e[i].v, Tail(ref), new))])
            ELSE Arr([root.e EXCEPT ![i] = ReplaceAt(root.e[i], Tail(ref), new)])

-----------------------------------------------------------------------------
(* Bounds and inputs *)

\* Submissions that pass validation are followed up to this many per run.
MaxEdits == 1
\* Rows of the pairs area: the terminal's height less the 3-line footer.
ViewportHeight == 20
\* How far past the last row the resolvers are asked.
MaxOver == 2
\* let scroll_offset = 5;
ScrollOffset == 5
\* Repetitions of one movement that are counted from the start of a run.
StreakCap == 100

T1(a) == <<a>>
TRUE_TEXT == <<"t", "r", "u", "e">>
FALSE_TEXT == <<"f", "a", "l", "s", "e">>
NULL_TEXT == <<"n", "u", "l", "l">>

\* {"a":1,"b":{"c":2,"d":3},"e":[10,20]}
ScenarioA ==
    Obj(<<KV(T1("a"), PosInt(1)),
          KV(T1("b"), Obj(<<KV(T1("c"), PosInt(2)), KV(T1("d"), PosInt(3))>>)),
          KV(T1("e"), Arr(<<PosInt(10), PosInt(20)>>))>>)

\* Documents the edit sessions start from.
EditTrees ==
    { ScenarioA,
      Obj(<<KV(T1("a"), PosInt(1))>>),
      Arr(<<Str(T1("s")), Obj(<<>>)>>),
      Obj(<<>>),
      Arr(<<>>) }

\* Texts the user types into the key and value inputs.
KeyTexts == { T1("b"), T1("c") }
ValueTexts == { T1("5"), <<"+", "5">>, T1("x") }

Chars == UNION { { t[i] : i \in 1..Len(t) } : t \in KeyTexts \cup ValueTexts }

IsPrefix(s, t) == Len(s) <= Len(t) /\ SubSeq(t, 1, Len(s)) = s
Typable(s, texts) == \E t \in texts : IsPrefix(s, t)

-----------------------------------------------------------------------------
(* app.rs: helpers of the handlers *)

\* saturating_sub
SatSub(a, b) == IF a >= b THEN a - b ELSE 0

Min(a, b) == IF a <= b THEN a ELSE b

\* App::line_at_cursor_without_empty_lines over given pairs and cursor
AdjustedLine(pairs, cursor) ==
    LET n == Min(cursor, Len(pairs))
        empty_lines == Cardinality({ i \in 1..n :
                           pairs[i].key = <<>> /\ pairs[i].value = None })
    IN SatSub(cursor, empty_lines)

line_at_cursor_without_empty_lines == AdjustedLine(json_pairs, line_at_cursor)

\* App::is_inside_array
is_inside_array ==
    LET r == get_nested_object_to_insert_into(line_at_cursor_without_empty_lines, json)
    IN r.some /\ is_array(NodeAt(json, r.ref))

EffectiveOffset(offset) == IF offset > lines_count THEN 0 ELSE offset

\* A test that holds only once the cursor has left the window.
is_current_line_past_viewport_end(line, offset) ==
    line > viewport_lines_count + scrolled_so_far

\* evaluated with the cursor already moved to line
is_current_line_at_viewport_end_with_offset(line, offset) ==
    line >= SatSub(viewport_lines_count + scrolled_so_far, EffectiveOffset(offset))

\* A test that holds anywhere in the visible window.
is_current_line_inside_viewport(line, offset) ==
    line <= scrolled_so_far + viewport_lines_count

is_current_line_at_viewport_start_with_offset(line, offset) ==
    line <= scrolled_so_far + EffectiveOffset(offset)

\* What a handler is given, kept for the properties of its result.
Snapshot ==
    [json |-> json, json_pairs |-> json_pairs, line_at_cursor |-> line_at_cursor,
     key_input |-> key_input, value_input |-> value_input,
     current_screen |-> current_screen, currently_editing |-> currently_editing,
     editing_mode |-> editing_mode, message_to_report |-> message_to_report,
     steps |-> line_at_cursor_without_empty_lines, inside_array |-> is_inside_array]

uiVars == <<key_input, value_input, key_focused, value_focused, current_screen,
            currently_editing, editing_mode>>
scrollVars == <<vertical_scroll, scrolled_so_far>>
docVars == <<json, json_pairs, lines_count>>
searchVars == <<search_widget, search_matches>>

\* AppNavigationAction::ToViewingScreen
\* A return to the viewing screen that leaves the edit mode as it is.
ToViewingScreenKeepingMode ==
    /\ key_focused' = FALSE
    /\ value_focused' = FALSE
    /\ currently_editing' = None
    /\ UNCHANGED editing_mode
    /\ key_input' = <<>>
    /\ value_input' = <<>>
    /\ current_screen' = "ViewingFile"

ToViewingScreen ==
    /\ key_focused' = FALSE
    /\ value_focused' = FALSE
    /\ currently_editing' = None
    /\ editing_mode' = "Inserting"
    /\ key_input' = <<>>
    /\ value_input' = <<>>
    /\ current_screen' = "ViewingFile"

\* The process aborts: nothing else of the state is observed again.
Panic ==
    /\ panicked' = TRUE
    /\ UNCHANGED <<json_pairs, lines_count, line_at_cursor, uiVars, message_to_report,
                   viewport_lines_count, scrollVars, searchVars, area_height,
                   overflow_checks, pc>>

\* How many times in a row, and as the only events of the run so far, the
\* action op has been handled once this one is; 0 when the run held another
\* event or the count has passed StreakCap.
Streak(op) ==
    IF last.op = "new" THEN 1
    ELSE IF last.op = op /\ last.streak \in 1..(StreakCap - 1) THEN last.streak + 1
    ELSE 0

\* A key event is read and handled between two draws; a run is followed up to
\* the draw after its MaxEdits-th submission.
Handling == pc = "event" /\ ~panicked /\ edits < MaxEdits
Handled ==
    pc' = "draw" /\ UNCHANGED <<panicked, overflow_checks, viewport_lines_count, area_height>>

-----------------------------------------------------------------------------
(* The edit submissions as functions of what they are given *)

\* The Object arm of insert_new_data_from_user_input.
\* [ok |-> no panic, e |-> the entries afterwards]
InsertIntoObject(entries, index, key, value, checks) ==
    IF Len(entries) < 2 /\ checks
    THEN [ok |-> FALSE, e |-> entries]          \* map.len() - 2 traps
    ELSE IF Len(entries) >= 2 /\ index > Len(entries) - 2
    THEN [ok |-> TRUE, e |-> MapInsert(entries, key, value)]
    ELSE MapShiftInsert(entries, index + 1, key, value)
         \* also where map.len() - 2 wrapped to a huge value

\* values.insert(index + 1, value)
InsertIntoArray(items, index, value) ==
    IF index + 1 > Len(items) THEN [ok |-> FALSE, e |-> items]
    ELSE [ok |-> TRUE, e |-> InsertAt(items, index + 2, value)]

\* The tree insert_new_data_from_user_input leaves once validation passed.
\* [ok |-> it returned, json |-> the tree]
InsertResult(tree, steps, key, text, checks) ==
    LET c == CoerceForInsert(text)
        r == get_nested_object_to_insert_into(steps, tree)
    IN IF ~c.ok THEN [ok |-> FALSE, json |-> tree]
       ELSE IF ~r.some THEN [ok |-> TRUE, json |-> tree]
       ELSE LET parent == NodeAt(tree, r.ref)
            IN IF is_object(parent)
               THEN LET m == InsertIntoObject(parent.e, r.index, key, c.value, checks)
                    IN [ok |-> m.ok, json |-> ReplaceAt(tree, r.ref, Obj(m.e))]
               ELSE IF is_array(parent)
               THEN LET m == InsertIntoArray(parent.e, r.index, c.value)
                    IN [ok |-> m.ok, json |-> ReplaceAt(tree, r.ref, Arr(m.e))]
               ELSE [ok |-> TRUE, json |-> tree]

\* The Object arm of update_existing_data_from_user_input.
\* [ok |-> no panic, e |-> the entries, msg |-> the message reported]
UpdateInObject(entries, index, new_key, value) ==
    IF index >= Len(entries) THEN [ok |-> TRUE, e |-> entries, msg |-> ""]
    ELSE LET old_key == entries[index + 1].k
         IN IF old_key # new_key
            THEN LET m == MapShiftInsert(MapShiftRemove(entries, old_key),
                                         index, new_key, value)
                 IN [ok |-> m.ok, e |-> m.e, msg |-> "Updated key-value pair"]
            ELSE [ok |-> TRUE, e |-> MapInsert(entries, old_key, value),
                  msg |-> "Updated value"]

\* The Array arm: values[index] = new_value
UpdateInArray(items, index, value) ==
    IF index < Len(items)
    THEN [ok |-> TRUE, e |-> [items EXCEPT ![index + 1] = value],
          msg |-> "Updated array value"]
    ELSE [ok |-> TRUE, e |-> items, msg |-> ""]

\* What update_existing_data_from_user_input does once validation passed.
\* [ok |-> no panic, done |-> it went on to save and leave the editing screen,
\*  json |-> the tree, msg |-> the message reported, "" for none]
UpdateResult(tree, steps, key, text) ==
    LET c == CoerceForUpdate(text)
        r == get_nested_object_to_insert_into(steps, tree)
    IN IF ~c.ok THEN [ok |-> FALSE, done |-> FALSE, json |-> tree, msg |-> ""]
       ELSE IF ~r.some
       THEN [ok |-> TRUE, done |-> FALSE, json |-> tree,
             msg |-> "Could not find parent to update value"]
       ELSE LET parent == NodeAt(tree, r.ref)
            IN IF is_object(parent)
               THEN LET m == UpdateInObject(parent.e, r.index, key, c.value)
                    IN [ok |-> m.ok, done |-> m.ok,
                        json |-> ReplaceAt(tree, r.ref, Obj(m.e)), msg |-> m.msg]
               ELSE IF is_array(parent)
               THEN LET m == UpdateInArray(parent.e, r.index, c.value)
                    IN [ok |-> m.ok, done |-> m.ok,
                        json |-> ReplaceAt(tree, r.ref, Arr(m.e)), msg |-> m.msg]
               ELSE [ok |-> TRUE, done |-> FALSE, json |-> tree,
                     msg |-> "Cannot update this value"]

\* A validation that asks for the value text only, whatever the parent.
InputsMissingValueOnly == value_input = <<>>

\* The early return of both submissions: a required input is empty.
InputsMissing ==
    IF is_inside_array THEN value_input = <<>>
    ELSE key_input = <<>> \/ value_input = <<>>

-----------------------------------------------------------------------------
(* views/main_view.rs: the search matches draw_pairs_widget records        *)

\* str::to_lowercase on the letters of the sample documents and queries
to_lowercase(s) ==
    [i \in 1..Len(s) |->
        CASE s[i] = "A" -> "a" [] s[i] = "B" -> "b" [] s[i] = "C" -> "c"
          [] s[i] = "U" -> "u" [] OTHER -> s[i]]

\* str::contains with a non-empty or empty pattern
Contains(text, pattern) ==
    \E i \in 0..(Len(text) - Len(pattern)) : SubSeq(text, i + 1, i + Len(pattern)) = pattern

\* Value::to_string of a scalar: compact JSON, a string in its quotes
\* (the sample strings hold no character that is escaped)
ValueToString(v) ==
    CASE v.t = "str" -> <<"\"">> \o v.s \o <<"\"">>
      [] v.t = "num" -> NumberToText(v)
      [] v.t = "bool" -> IF v.b THEN TRUE_TEXT ELSE FALSE_TEXT
      [] v.t = "null" -> NULL_TEXT

\* pair.key.to_lowercase().contains(content): the row is pushed
PushKeyMatch(matches, pair, current_line, content) ==
    IF content # <<>> /\ Contains(to_lowercase(pair.key), content)
    THEN Append(matches, current_line) ELSE matches

\* A value match that is pushed whatever was recorded last.
PushValueMatchAgain(matches, pair, current_line, content) ==
    IF /\ pair.value # None
       /\ content # <<>>
       /\ Contains(to_lowercase(ValueToString(pair.value[1])), content)
    THEN Append(matches, current_line) ELSE matches

\* value.to_string().to_lowercase().contains(content): the row is pushed
\* unless it is the last one recorded
PushValueMatch(matches, pair, current_line, content) ==
    IF /\ pair.value # None
       /\ content # <<>>
       /\ Contains(to_lowercase(ValueToString(pair.value[1])), content)
       /\ (matches = <<>> \/ matches[Len(matches)] # current_line)
    THEN Append(matches, current_line) ELSE matches

\* What one pass of the loop pushes for the row current_line.  The last
\* recorded match can be current_line only when this pass pushed it for the
\* key, so the pass is computed from an empty list.
RowMatches(pair, current_line, content) ==
    PushValueMatch(PushKeyMatch(<<>>, pair, current_line, content),
                   pair, current_line, content)

\* for (current_line, pair) in pairs.into_iter().enumerate(): what the
\* passes for the rows lo..hi push, in order
RECURSIVE RecordMatches(_, _, _, _)
RecordMatches(pairs, lo, hi, content) ==
    IF lo > hi THEN <<>>
    ELSE IF lo = hi THEN RowMatches(pairs[lo], lo - 1, content)
    ELSE RecordMatches(pairs, lo, (lo + hi) \div 2, content)
         \o RecordMatches(pairs, (lo + hi) \div 2 + 1, hi, content)

-----------------------------------------------------------------------------
(* The program: App::run draws, then reads and handles one event.          *)
(* Writing the file back after an edit is taken to succeed.                *)

\* App::default() with the parsed document (App::new)
InitApp(trees) ==
    /\ json \in trees
    /\ json_pairs = <<>>
    /\ lines_count = 0
    /\ line_at_cursor = 0
    /\ key_input = <<>>
    /\ value_input = <<>>
    /\ key_focused = FALSE
    /\ value_focused = FALSE
    /\ current_screen = "ViewingFile"
    /\ currently_editing = None
    /\ editing_mode = "Inserting"
    /\ message_to_report = ""
    /\ viewport_lines_count = 0
    /\ vertical_scroll = 0
    /\ scrolled_so_far = 0
    /\ search_widget = <<>>
    /\ search_matches = <<>>
    /\ overflow_checks \in BOOLEAN
    /\ panicked = FALSE
    /\ edits = 0
    /\ last = [op |-> "new"]

Init == InitApp(EditTrees) /\ area_height = ViewportHeight /\ pc = "draw"

\* A draw that computes the rows once and keeps them from then on.
DrawKeepingRows ==
    /\ pc = "draw" /\ ~panicked
    /\ viewport_lines_count' = area_height
    /\ IF ~IsContainer(json)
       THEN /\ panicked' = TRUE
            /\ UNCHANGED <<json_pairs, lines_count, search_matches, pc>>
       ELSE /\ IF Len(json.e) = 0 \/ json_pairs # <<>>
               THEN UNCHANGED <<json_pairs, lines_count, search_matches>>
               ELSE LET r == insert_data_to_tree(json, 0)
                    IN /\ json_pairs' = r.pairs
                       /\ lines_count' = r.count
                       /\ search_matches' = RecordMatches(r.pairs, 1, Len(r.pairs), search_widget)
            /\ pc' = "event"
            /\ UNCHANGED panicked
    /\ UNCHANGED <<json, line_at_cursor, uiVars, message_to_report, scrollVars,
                   search_widget, area_height, overflow_checks, edits, last>>

\* App::draw_main_view / draw_pairs_widget: the rows are recomputed from the tree
Draw ==
    /\ pc = "draw" /\ ~panicked
    /\ viewport_lines_count' = area_height
    /\ IF ~IsContainer(json)
       THEN /\ panicked' = TRUE
            /\ UNCHANGED <<json_pairs, lines_count, search_matches, pc>>
       ELSE /\ IF Len(json.e) = 0
               THEN UNCHANGED <<json_pairs, lines_count, search_matches>>
               ELSE LET r == insert_data_to_tree(json, 0)
                    IN /\ json_pairs' = r.pairs
                       /\ lines_count' = r.count
                       /\ search_matches' = RecordMatches(r.pairs, 1, Len(r.pairs), search_widget)
            /\ pc' = "event"
            /\ UNCHANGED panicked
    /\ UNCHANGED <<json, line_at_cursor, uiVars, message_to_report, scrollVars,
                   search_widget, area_height, overflow_checks, edits, last>>

\* A MoveDown that does not look at lines_count.
MoveDownUnclamped ==
    /\ Handling /\ current_screen = "ViewingFile"
    /\ line_at_cursor' = line_at_cursor + 1
    /\ UNCHANGED scrollVars
    /\ last' = [op |-> "MoveDown", cursor |-> line_at_cursor, streak |-> Streak("MoveDown")]
    /\ Handled
    /\ UNCHANGED <<docVars, uiVars, message_to_report, searchVars, edits>>

\* MainViewActions::MoveDown
MoveDown ==
    /\ Handling /\ current_screen = "ViewingFile"
    /\ IF line_at_cursor + 1 < lines_count
       THEN /\ line_at_cursor' = line_at_cursor + 1
            /\ IF is_current_line_at_viewport_end_with_offset(line_at_cursor + 1, ScrollOffset)
               THEN vertical_scroll' = vertical_scroll + 1
                    /\ scrolled_so_far' = vertical_scroll + 1
               ELSE UNCHANGED scrollVars
       ELSE UNCHANGED <<line_at_cursor, scrollVars>>
    /\ last' = [op |-> "MoveDown", cursor |-> line_at_cursor, streak |-> Streak("MoveDown")]
    /\ Handled
    /\ UNCHANGED <<docVars, uiVars, message_to_report, searchVars, edits>>

\* MainViewActions::MoveUp
MoveUp ==
    /\ Handling /\ current_screen = "ViewingFile"
    /\ line_at_cursor' = SatSub(line_at_cursor, 1)
    /\ IF is_current_line_at_viewport_start_with_offset(SatSub(line_at_cursor, 1), ScrollOffset)
       THEN vertical_scroll' = SatSub(vertical_scroll, 1)
            /\ scrolled_so_far' = SatSub(vertical_scroll, 1)
       ELSE UNCHANGED scrollVars
    /\ last' = [op |-> "MoveUp", cursor |-> line_at_cursor, streak |-> Streak("MoveUp")]
    /\ Handled
    /\ UNCHANGED <<docVars, uiVars, message_to_report, searchVars, edits>>

\* App::toggle_editing, on 'i' while viewing and on Tab while editing
ToEditingScreen ==
    /\ Handling
    /\ current_screen \in {"ViewingFile", "Editing"}
    /\ IF currently_editing = Some("Key")
       THEN /\ currently_editing' = Some("Value")
            /\ key_focused' = FALSE /\ value_focused' = TRUE
            /\ UNCHANGED <<current_screen, editing_mode>>
       ELSE IF currently_editing = Some("Value")
       THEN /\ IF ~is_inside_array
               THEN /\ currently_editing' = Some("Key")
                    /\ key_focused' = TRUE /\ value_focused' = FALSE
               ELSE UNCHANGED <<currently_editing, key_focused, value_focused>>
            /\ UNCHANGED <<current_screen, editing_mode>>
       ELSE /\ current_screen' = "Editing"
            /\ editing_mode' = "Inserting"
            /\ IF ~is_inside_array
               THEN /\ currently_editing' = Some("Key")
                    /\ key_focused' = TRUE /\ value_focused' = FALSE
               ELSE /\ currently_editing' = Some("Value")
                    /\ key_focused' = FALSE /\ value_focused' = TRUE
    /\ last' = [op |-> "ToEditingScreen"]
    /\ Handled
    /\ UNCHANGED <<docVars, line_at_cursor, key_input, value_input, message_to_report,
                   scrollVars, searchVars, edits>>

\* App::start_editing_existing_value, on 'e' while viewing
\* A start_editing_existing_value without the test for header rows.
EditExistingOnAnyRow ==
    /\ Handling /\ current_screen = "ViewingFile"
    /\ IF line_at_cursor >= Len(json_pairs)
       THEN /\ message_to_report' = "No value to edit at current position"
            /\ UNCHANGED uiVars
       ELSE LET r == get_current_value_at_position(line_at_cursor_without_empty_lines, json)
            IN IF r.value # None
               THEN /\ editing_mode' = "Editing"
                    /\ current_screen' = "Editing"
                    /\ IF r.key # None
                       THEN /\ key_input' = r.key[1]
                            /\ currently_editing' = Some("Key")
                            /\ key_focused' = TRUE /\ value_focused' = FALSE
                       ELSE /\ key_input' = <<>>
                            /\ currently_editing' = Some("Value")
                            /\ key_focused' = FALSE /\ value_focused' = TRUE
                    /\ value_input' = ValueToInputText(r.value[1])
                    /\ message_to_report' = "Editing existing value"
               ELSE /\ message_to_report' = "Could not find value to edit"
                    /\ UNCHANGED uiVars
    /\ last' = [op |-> "EditExisting", pre |-> Snapshot]
    /\ Handled
    /\ UNCHANGED <<docVars, line_at_cursor, scrollVars, searchVars, edits>>

EditExisting ==
    /\ Handling /\ current_screen = "ViewingFile"
    /\ IF line_at_cursor >= Len(json_pairs)
       THEN /\ message_to_report' = "No value to edit at current position"
            /\ UNCHANGED uiVars
       ELSE IF json_pairs[line_at_cursor + 1].value = None
       THEN /\ message_to_report' = "Cannot edit object or array headers"
            /\ UNCHANGED uiVars
       ELSE LET r == get_current_value_at_position(line_at_cursor_without_empty_lines, json)
            IN IF r.value # None
               THEN /\ editing_mode' = "Editing"
                    /\ current_screen' = "Editing"
                    /\ IF r.key # None
                       THEN /\ key_input' = r.key[1]
                            /\ currently_editing' = Some("Key")
                            /\ key_focused' = TRUE /\ value_focused' = FALSE
                       ELSE /\ key_input' = <<>>
                            /\ currently_editing' = Some("Value")
                            /\ key_focused' = FALSE /\ value_focused' = TRUE
                    /\ value_input' = ValueToInputText(r.value[1])
                    /\ message_to_report' = "Editing existing value"
               ELSE /\ message_to_report' = "Could not find value to edit"
                    /\ UNCHANGED uiVars
    /\ last' = [op |-> "EditExisting", pre |-> Snapshot]
    /\ Handled
    /\ UNCHANGED <<docVars, line_at_cursor, scrollVars, searchVars, edits>>

\* EditingAction::AppendChar(c): the focused input takes the character
AppendChar(c) ==
    /\ Handling /\ current_screen = "Editing"
    /\ IF currently_editing = Some("Key") /\ key_focused
       THEN /\ Typable(Append(key_input, c), KeyTexts)
            /\ key_input' = Append(key_input, c)
            /\ UNCHANGED value_input
       ELSE IF currently_editing = Some("Value") /\ value_focused
       THEN /\ Typable(Append(value_input, c), ValueTexts)
            /\ value_input' = Append(value_input, c)
            /\ UNCHANGED key_input
       ELSE UNCHANGED <<key_input, value_input>>
    /\ last' = [op |-> "AppendChar"]
    /\ Handled
    /\ UNCHANGED <<docVars, line_at_cursor, key_focused, value_focused, current_screen,
                   currently_editing, editing_mode, message_to_report, scrollVars, searchVars, edits>>

\* Backspace while editing: PopFromKey / PopFromValue, TextInput::delete_char
Backspace ==
    /\ Handling /\ current_screen = "Editing"
    /\ IF currently_editing = Some("Key") /\ key_focused
       THEN /\ key_input' = SubSeq(key_input, 1, Len(key_input) - 1)
            /\ UNCHANGED value_input
       ELSE IF currently_editing = Some("Value") /\ value_focused
       THEN /\ value_input' = SubSeq(value_input, 1, Len(value_input) - 1)
            /\ UNCHANGED key_input
       ELSE UNCHANGED <<key_input, value_input>>
    /\ last' = [op |-> "Backspace"]
    /\ Handled
    /\ UNCHANGED <<docVars, line_at_cursor, key_focused, value_focused, current_screen,
                   currently_editing, editing_mode, message_to_report, scrollVars, searchVars, edits>>

\* Esc while editing
Escape ==
    /\ Handling /\ current_screen = "Editing"
    /\ ToViewingScreen
    /\ last' = [op |-> "Escape"]
    /\ Handled
    /\ UNCHANGED <<docVars, line_at_cursor, message_to_report, scrollVars, searchVars, edits>>

\* Enter while editing, editing_mode Inserting: App::insert_new_data_from_user_input
SubmitInsert ==
    /\ Handling /\ current_screen = "Editing" /\ editing_mode = "Inserting"
    /\ IF InputsMissing
       THEN /\ last' = [op |-> "insert", outcome |-> "rejected", pre |-> Snapshot]
            /\ Handled
            /\ UNCHANGED <<docVars, line_at_cursor, uiVars, message_to_report,
                           scrollVars, searchVars, edits>>
       ELSE LET r == InsertResult(json, line_at_cursor_without_empty_lines,
                                  key_input, value_input, overflow_checks)
            IN /\ json' = r.json
               /\ edits' = edits + 1
               /\ last' = [op |-> "insert", pre |-> Snapshot,
                           outcome |-> IF r.ok THEN "done" ELSE "panic"]
               /\ IF r.ok
                  THEN /\ message_to_report' = "Inserted new key-value pair"
                       /\ ToViewingScreen
                       /\ Handled
                       /\ UNCHANGED <<json_pairs, lines_count, line_at_cursor, scrollVars,
                                      searchVars>>
                  ELSE Panic

\* Enter while editing, editing_mode Editing: App::update_existing_data_from_user_input
SubmitUpdate ==
    /\ Handling /\ current_screen = "Editing" /\ editing_mode = "Editing"
    /\ IF InputsMissing
       THEN /\ last' = [op |-> "update", outcome |-> "rejected", pre |-> Snapshot]
            /\ Handled
            /\ UNCHANGED <<docVars, line_at_cursor, uiVars, message_to_report,
                           scrollVars, searchVars, edits>>
       ELSE LET r == UpdateResult(json, line_at_cursor_without_empty_lines,
                                  key_input, value_input)
            IN /\ json' = r.json
               /\ edits' = edits + 1
               /\ last' = [op |-> "update", pre |-> Snapshot,
                           outcome |-> IF ~r.ok THEN "panic"
                                       ELSE IF r.done THEN "done" ELSE "returned"]
               /\ IF ~r.ok THEN Panic
                  ELSE /\ message_to_report' =
                              (IF r.msg = "" THEN message_to_report ELSE r.msg)
                       /\ IF r.done THEN ToViewingScreen ELSE UNCHANGED uiVars
                       /\ Handled
                       /\ UNCHANGED <<json_pairs, lines_count, line_at_cursor, scrollVars,
                                      searchVars>>

Next ==
    \/ Draw
    \/ MoveDown
    \/ MoveUp
    \/ ToEditingScreen
    \/ EditExisting
    \/ \E c \in Chars : AppendChar(c)
    \/ Backspace
    \/ Escape
    \/ SubmitInsert
    \/ SubmitUpdate

Spec == Init /\ [][Next]_vars

-----------------------------------------------------------------------------
(* Moving through the rows: documents of many rows are loaded into         *)
(* terminals of several heights and the six movements are taken in any     *)
(* order.                                                                  *)

\* A document of n rows: arrays of nine nulls, ten rows each with the
\* header, then single nulls.
RowsDoc(n) ==
    Arr([j \in 1..(n \div 10) |-> Arr([i \in 1..9 |-> Null])]
        \o [i \in 1..(n % 10) |-> Null])

\* The document of tests::test_lines_count (app.rs), 30 rows, its keys and
\* strings shortened.
TestLinesCountTree ==
    Obj(<<KV(T1("s"), Str(T1("U"))),
          KV(T1("n"), Obj(<<KV(T1("i"), PosInt(42)),
                            KV(T1("n"), NegInt(17)),
                            KV(T1("f"), Float(314159, -5)),
                            KV(T1("s"), Float(123, -6))>>)),
          KV(T1("b"), Obj(<<KV(T1("t"), Bool(TRUE)), KV(T1("f"), Bool(FALSE))>>)),
          KV(T1("u"), Null),
          KV(T1("a"), Arr(<<Str(T1("s")), PosInt(123), Bool(FALSE), Null,
                            Obj(<<KV(T1("n"), Str(T1("i")))>>),
                            Arr(<<PosInt(1), PosInt(2),
                                  Arr(<<PosInt(3), PosInt(4)>>)>>)>>)),
          KV(T1("o"), Obj(<<KV(T1("l"),
                  Obj(<<KV(T1("l"), Obj(<<KV(T1("l"), Str(T1("d")))>>))>>))>>)),
          KV(T1("e"), Obj(<<KV(T1("o"), Obj(<<>>)), KV(T1("a"), Arr(<<>>))>>))>>)

\* Row counts of the documents; 100 rows in 20 lines is Scenario E.
ViewRowCounts == {0, 1, 4, 5, 13, 100}
ViewTrees == { RowsDoc(n) : n \in ViewRowCounts } \cup { TestLinesCountTree }
\* Heights of the pairs area; 0 is the height the unit tests run with.
ViewHeights == {0, 1, 3, 7, 20, ViewportHeight}

InitView == InitApp(ViewTrees) /\ area_height \in ViewHeights /\ pc = "draw"

\* What a movement leaves alone.
Moved(op) ==
    /\ last' = [op |-> op, cursor |-> line_at_cursor, streak |-> Streak(op)]
    /\ Handled
    /\ UNCHANGED <<docVars, uiVars, message_to_report, searchVars, edits>>

\* The body of the MoveToTop arm, which MoveHalfPageUp runs as well.
MoveToTopArm ==
    IF lines_count = 0
    THEN UNCHANGED <<line_at_cursor, scrollVars>>
    ELSE /\ line_at_cursor' = 0
         /\ vertical_scroll' = 0
         /\ scrolled_so_far' = 0

\* MainViewActions::MoveToTop
MoveToTop ==
    /\ Handling /\ current_screen = "ViewingFile"
    /\ MoveToTopArm
    /\ Moved("MoveToTop")

\* A MoveToBottom that puts the last row at the top of the window.
MoveToBottomLastRowFirst ==
    /\ Handling /\ current_screen = "ViewingFile"
    /\ IF lines_count = 0
       THEN UNCHANGED <<line_at_cursor, scrollVars>>
       ELSE /\ line_at_cursor' = SatSub(lines_count, 1)
            /\ vertical_scroll' = SatSub(lines_count, 1)
            /\ scrolled_so_far' = SatSub(lines_count, 1)
    /\ Moved("MoveToBottom")

\* MainViewActions::MoveToBottom
MoveToBottom ==
    /\ Handling /\ current_screen = "ViewingFile"
    /\ IF lines_count = 0
       THEN UNCHANGED <<line_at_cursor, scrollVars>>
       ELSE /\ line_at_cursor' = SatSub(lines_count, 1)
            /\ vertical_scroll' = SatSub(lines_count, viewport_lines_count)
            /\ scrolled_so_far' = SatSub(lines_count, viewport_lines_count)
    /\ Moved("MoveToBottom")

\* A MoveHalfPageDown that scrolls only as far as the cursor leaves the window.
MoveHalfPageDownKeepingWindow ==
    /\ Handling /\ current_screen = "ViewingFile"
    /\ line_at_cursor' = Min(line_at_cursor + viewport_lines_count \div 2,
                             SatSub(lines_count, 1))
    /\ vertical_scroll' =
           IF line_at_cursor' >= vertical_scroll + viewport_lines_count
           THEN vertical_scroll + viewport_lines_count \div 2 ELSE vertical_scroll
    /\ scrolled_so_far' = vertical_scroll'
    /\ Moved("MoveHalfPageDown")

\* MainViewActions::MoveHalfPageDown
MoveHalfPageDown ==
    /\ Handling /\ current_screen = "ViewingFile"
    /\ IF lines_count = 0
       THEN UNCHANGED <<line_at_cursor, scrollVars>>
       ELSE IF line_at_cursor < SatSub(lines_count, viewport_lines_count \div 2)
       THEN /\ line_at_cursor' = line_at_cursor + viewport_lines_count \div 2
            /\ vertical_scroll' = vertical_scroll + viewport_lines_count \div 2
            /\ scrolled_so_far' = scrolled_so_far + viewport_lines_count \div 2
       ELSE /\ line_at_cursor' = line_at_cursor + (lines_count - line_at_cursor - 1)
            /\ vertical_scroll' =
                   SatSub(lines_count,
                          viewport_lines_count - (viewport_lines_count \div 2))
            /\ scrolled_so_far' =
                   SatSub(lines_count,
                          viewport_lines_count - (viewport_lines_count \div 2))
    /\ Moved("MoveHalfPageDown")

\* A MoveHalfPageUp that moves the cursor and leaves the window where it is.
MoveHalfPageUpCursorOnly ==
    /\ Handling /\ current_screen = "ViewingFile"
    /\ IF lines_count = 0
       THEN UNCHANGED <<line_at_cursor, scrollVars>>
       ELSE IF line_at_cursor > viewport_lines_count \div 2
       THEN /\ line_at_cursor' = SatSub(line_at_cursor, viewport_lines_count \div 2)
            /\ UNCHANGED scrollVars
       ELSE MoveToTopArm
    /\ Moved("MoveHalfPageUp")

\* MainViewActions::MoveHalfPageUp
MoveHalfPageUp ==
    /\ Handling /\ current_screen = "ViewingFile"
    /\ IF lines_count = 0
       THEN UNCHANGED <<line_at_cursor, scrollVars>>
       ELSE IF line_at_cursor > viewport_lines_count \div 2
       THEN /\ line_at_cursor' = SatSub(line_at_cursor, viewport_lines_count \div 2)
            /\ vertical_scroll' = SatSub(vertical_scroll, viewport_lines_count \div 2)
            /\ scrolled_so_far' = SatSub(vertical_scroll, viewport_lines_count \div 2)
       ELSE MoveToTopArm
    /\ Moved("MoveHalfPageUp")

NextView ==
    \/ Draw
    \/ MoveDown
    \/ MoveUp
    \/ MoveToTop
    \/ MoveToBottom
    \/ MoveHalfPageDown
    \/ MoveHalfPageUp

SpecView == InitView /\ [][NextView]_vars

-----------------------------------------------------------------------------
(* Searching: '/' opens the search input, the query is typed character by  *)
(* character, every draw records the matching rows, and n / N walk them.   *)

\* {"a": "Ab", "B": {"ab": 1, "c": true}, "u": ["A", "b", null]}
SearchTree ==
    Obj(<<KV(T1("a"), Str(<<"A", "b">>)),
          KV(T1("B"), Obj(<<KV(<<"a", "b">>, PosInt(1)), KV(T1("c"), Bool(TRUE))>>)),
          KV(T1("u"), Arr(<<Str(T1("A")), Str(T1("b")), Null>>))>>)

SearchTrees == { SearchTree, ScenarioA, Obj(<<>>) }
\* Queries the user types.
SearchTexts == { <<"a", "b">>, <<"A", "b">>, T1("u"), T1("1"), T1("\"") }
SearchChars == UNION { { t[i] : i \in 1..Len(t) } : t \in SearchTexts }
\* Heights of the pairs area.
SearchHeights == {3, ViewportHeight}

InitSearch == InitApp(SearchTrees) /\ area_height \in SearchHeights /\ pc = "draw"

\* What GoToNextMatch and GoToPrevMatch are given.
SearchSnapshot ==
    [line_at_cursor |-> line_at_cursor, vertical_scroll |-> vertical_scroll,
     search_widget |-> search_widget, search_matches |-> search_matches,
     message_to_report |-> message_to_report]

\* '/' while viewing: SearchingAction::ClearSearch, then
\* AppNavigationAction::ToSearchingWidget
ToSearchingWidget ==
    /\ Handling /\ current_screen = "ViewingFile"
    /\ search_widget' = <<>>
    /\ search_matches' = <<>>
    /\ current_screen' = "Searching"
    /\ last' = [op |-> "ToSearchingWidget"]
    /\ Handled
    /\ UNCHANGED <<docVars, line_at_cursor, key_input, value_input, key_focused,
                   value_focused, currently_editing, editing_mode, message_to_report,
                   scrollVars, edits>>

\* Esc while viewing: SearchingAction::ClearSearch
ClearSearch ==
    /\ Handling /\ current_screen = "ViewingFile"
    /\ search_widget' = <<>>
    /\ search_matches' = <<>>
    /\ last' = [op |-> "ClearSearch"]
    /\ Handled
    /\ UNCHANGED <<docVars, line_at_cursor, uiVars, message_to_report, scrollVars, edits>>

\* SearchingAction::AppendChar(c): ClearMatches, then the input takes c
SearchingAppendChar(c) ==
    /\ Handling /\ current_screen = "Searching"
    /\ Typable(Append(search_widget, c), SearchTexts)
    /\ search_matches' = <<>>
    /\ search_widget' = Append(search_widget, c)
    /\ last' = [op |-> "SearchingAppendChar"]
    /\ Handled
    /\ UNCHANGED <<docVars, line_at_cursor, uiVars, message_to_report, scrollVars, edits>>

\* SearchingAction::PopChar: TextInput::delete_char
PopChar ==
    /\ Handling /\ current_screen = "Searching"
    /\ search_widget' = SubSeq(search_widget, 1, Len(search_widget) - 1)
    /\ last' = [op |-> "PopChar"]
    /\ Handled
    /\ UNCHANGED <<docVars, line_at_cursor, uiVars, message_to_report, scrollVars,
                   search_matches, edits>>

\* Enter while searching: SearchingAction::ReportResults, then ToViewingScreen
ReportResults ==
    /\ Handling /\ current_screen = "Searching"
    /\ message_to_report' = "Found matches"
    /\ ToViewingScreen
    /\ last' = [op |-> "ReportResults"]
    /\ Handled
    /\ UNCHANGED <<docVars, line_at_cursor, scrollVars, searchVars, edits>>

\* Esc while searching: ToViewingScreen
SearchingEscape ==
    /\ Handling /\ current_screen = "Searching"
    /\ ToViewingScreen
    /\ last' = [op |-> "SearchingEscape"]
    /\ Handled
    /\ UNCHANGED <<docVars, line_at_cursor, message_to_report, scrollVars, searchVars,
                   edits>>

\* An index that falls back on the first match when none lies below the cursor.
FirstMatchAfterOrFirst(matches, cursor) ==
    LET hits == { i \in 1..Len(matches) : cursor < matches[i] }
    IN IF hits # {} THEN CHOOSE i \in hits : \A j \in hits : i <= j
       ELSE IF matches # <<>> /\ matches[1] # cursor THEN 1 ELSE 0

\* for (i, line_match) in search_matches.iter().enumerate(): the index
\* (from 1) where the loop breaks, 0 when it runs to the end
FirstMatchAfter(matches, cursor) ==
    LET hits == { i \in 1..Len(matches) : cursor < matches[i] }
    IN IF hits = {} THEN 0 ELSE CHOOSE i \in hits : \A j \in hits : i <= j

\* An index found scanning from the start of the list.
FirstMatchBefore(matches, cursor) ==
    LET hits == { i \in 1..Len(matches) : cursor > matches[i] }
    IN IF hits = {} THEN 0 ELSE CHOOSE i \in hits : \A j \in hits : i <= j

\* for (i, line_match) in search_matches.iter().rev().enumerate(): the index
\* (from 1, in list order) where the loop breaks, 0 when it runs to the end
LastMatchBefore(matches, cursor) ==
    LET hits == { i \in 1..Len(matches) : cursor > matches[i] }
    IN IF hits = {} THEN 0 ELSE CHOOSE i \in hits : \A j \in hits : i >= j

\* let line_diff = line_match.saturating_sub(self.vertical_scroll);
\* if line_diff > viewport_lines_count.saturating_sub(viewport_lines_count / 4)
NextMatchScrolls(line_match) ==
    SatSub(line_match, vertical_scroll)
        > SatSub(viewport_lines_count, viewport_lines_count \div 4)

\* SearchingAction::GoToNextMatch, on 'n' while viewing
GoToNextMatch ==
    /\ Handling /\ current_screen = "ViewingFile"
    /\ IF search_widget = <<>>
       THEN UNCHANGED <<line_at_cursor, scrollVars, message_to_report>>
       ELSE IF FirstMatchAfter(search_matches, line_at_cursor) # 0
       THEN /\ line_at_cursor' =
                   search_matches[FirstMatchAfter(search_matches, line_at_cursor)]
            /\ IF NextMatchScrolls(line_at_cursor')
               THEN /\ vertical_scroll' =
                          vertical_scroll
                          + SatSub(SatSub(line_at_cursor', vertical_scroll),
                                   viewport_lines_count \div 2)
                    /\ scrolled_so_far' = vertical_scroll'
               ELSE UNCHANGED scrollVars
            /\ message_to_report' = "Match out of"
       ELSE /\ message_to_report' = "No more matches"
            /\ UNCHANGED <<line_at_cursor, scrollVars>>
    /\ last' = [op |-> "GoToNextMatch", pre |-> SearchSnapshot]
    /\ Handled
    /\ UNCHANGED <<docVars, uiVars, searchVars, edits>>

\* SearchingAction::GoToPrevMatch, on 'N' while viewing
GoToPrevMatch ==
    /\ Handling /\ current_screen = "ViewingFile"
    /\ IF search_widget = <<>>
       THEN UNCHANGED <<line_at_cursor, scrollVars, message_to_report>>
       ELSE IF LastMatchBefore(search_matches, line_at_cursor) # 0
       THEN /\ line_at_cursor' =
                   search_matches[LastMatchBefore(search_matches, line_at_cursor)]
            /\ vertical_scroll' = SatSub(line_at_cursor', viewport_lines_count \div 2)
            /\ scrolled_so_far' = vertical_scroll'
            /\ message_to_report' = "Match out of"
       ELSE /\ message_to_report' = "No previous matches"
            /\ UNCHANGED <<line_at_cursor, scrollVars>>
    /\ last' = [op |-> "GoToPrevMatch", pre |-> SearchSnapshot]
    /\ Handled
    /\ UNCHANGED <<docVars, uiVars, searchVars, edits>>

NextSearch ==
    \/ Draw
    \/ MoveDown
    \/ MoveUp
    \/ ToSearchingWidget
    \/ ClearSearch
    \/ \E c \in SearchChars : SearchingAppendChar(c)
    \/ PopChar
    \/ ReportResults
    \/ SearchingEscape
    \/ GoToNextMatch
    \/ GoToPrevMatch

SpecSearch == InitSearch /\ [][NextSearch]_vars

-----------------------------------------------------------------------------
(* The flattener and the resolvers on their own: a document is loaded and  *)
(* each of the three is called on it, the resolvers at every position up   *)
(* to MaxOver past the last row.                                           *)

\* ["1", "2", {"k": "v", "n": {"d": "v"}}, ["3", "4"]]  (json.rs, array root test)
ArrayRootTree ==
    Arr(<<Str(T1("1")), Str(T1("2")),
          Obj(<<KV(T1("k"), Str(T1("v"))),
                KV(T1("n"), Obj(<<KV(T1("d"), Str(T1("v")))>>))>>),
          Arr(<<Str(T1("3")), Str(T1("4"))>>)>>)

\* {"p": [123, true, null, "s"], "e": {}, "n": {"i": {}}}  (json.rs, edge cases test)
EdgeCasesTree ==
    Obj(<<KV(T1("p"), Arr(<<PosInt(123), Bool(TRUE), Null, Str(T1("s"))>>)),
          KV(T1("e"), Obj(<<>>)),
          KV(T1("n"), Obj(<<KV(T1("i"), Obj(<<>>))>>))>>)

\* [42, null, {"n": "O", "r": {"a": "true"}, "g": "24"}]  (app.rs, array flatten test)
ArrayFlattenTree ==
    Arr(<<PosInt(42), Null,
          Obj(<<KV(T1("n"), Str(T1("O"))),
                KV(T1("r"), Obj(<<KV(T1("a"), Str(TRUE_TEXT))>>)),
                KV(T1("g"), Str(<<"2", "4">>))>>)>>)

\* {"arr": []}
ScenarioD == Obj(<<KV(<<"a", "r", "r">>, Arr(<<>>))>>)

\* Documents the flattener and the resolvers are called on.
TreeSamples ==
    EditTrees \cup
    { ArrayRootTree, EdgeCasesTree, ArrayFlattenTree, TestLinesCountTree, ScenarioD,
      Arr(<<Obj(<<KV(T1("a"), PosInt(1))>>)>>),
      Arr(<<PosInt(1), Obj(<<>>)>>),
      Arr(<<Obj(<<>>), PosInt(5)>>),
      Arr(<<Arr(<<PosInt(1)>>), Arr(<<PosInt(2)>>)>>),
      Obj(<<KV(T1("a"), Arr(<<Obj(<<KV(T1("b"), Arr(<<PosInt(1)>>))>>)>>))>>),
      Obj(<<KV(T1("r"), Arr(<<>>)), KV(T1("z"), Null)>>),
      Obj(<<KV(<<>>, Obj(<<KV(T1("a"), PosInt(1))>>)), KV(T1("b"), PosInt(2))>>),
      PosInt(5) }

\* Number of rows the flattener gives for a document.
RowsOf(tree) == Len(insert_data_to_tree(tree, 0).pairs)

InitTree == InitApp(TreeSamples) /\ area_height = ViewportHeight /\ pc = "tree"

\* insert_data_to_tree(&self.json, &mut pairs, 0, &mut lines_count)
TreeFlatten ==
    /\ pc = "tree"
    /\ last' = [op |-> "flatten", res |-> insert_data_to_tree(json, 0)]
    /\ UNCHANGED <<docVars, line_at_cursor, uiVars, message_to_report, scrollVars,
                   viewport_lines_count, searchVars, area_height, overflow_checks,
                   panicked, pc, edits>>

\* get_nested_object_to_insert_into(steps, &mut json)
TreeResolve(steps) ==
    /\ pc = "tree"
    /\ last' = [op |-> "resolve", steps |-> steps,
                res |-> get_nested_object_to_insert_into(steps, json)]
    /\ UNCHANGED <<docVars, line_at_cursor, uiVars, message_to_report, scrollVars,
                   viewport_lines_count, searchVars, area_height, overflow_checks,
                   panicked, pc, edits>>

\* get_current_value_at_position(steps, &json)
TreeLookup(steps) ==
    /\ pc = "tree"
    /\ last' = [op |-> "lookup", steps |-> steps,
                res |-> get_current_value_at_position(steps, json)]
    /\ UNCHANGED <<docVars, line_at_cursor, uiVars, message_to_report, scrollVars,
                   viewport_lines_count, searchVars, area_height, overflow_checks,
                   panicked, pc, edits>>

\* get_current_value_at_position(self.line_at_cursor_without_empty_lines(), &json)
\* with the cursor on row `row` of the rows flattened from json
TreeLookupRow(row) ==
    /\ pc = "tree"
    /\ last' = [op |-> "lookup_row", row |-> row,
                steps |-> AdjustedLine(insert_data_to_tree(json, 0).pairs, row),
                res |-> get_current_value_at_position(
                            AdjustedLine(insert_data_to_tree(json, 0).pairs, row), json)]
    /\ UNCHANGED <<docVars, line_at_cursor, uiVars, message_to_report, scrollVars,
                   viewport_lines_count, searchVars, area_height, overflow_checks,
                   panicked, pc, edits>>

NextTree ==
    \/ TreeFlatten
    \/ \E steps \in 0..(RowsOf(json) + MaxOver) : TreeResolve(steps)
    \/ \E steps \in 0..(RowsOf(json) + MaxOver) : TreeLookup(steps)
    \/ \E row \in 0..(RowsOf(json) - 1) : TreeLookupRow(row)

SpecTree == InitTree /\ [][NextTree]_vars

-----------------------------------------------------------------------------
(* Opening rows for editing: cursor keys, e and Esc on sample documents.   *)

\* {"": {"a": 1}, "b": 2}
EmptyKeyTree ==
    Obj(<<KV(<<>>, Obj(<<KV(T1("a"), PosInt(1))>>)), KV(T1("b"), PosInt(2))>>)

\* Documents rows are opened for editing on.
OpenTrees == { ScenarioA, ArrayFlattenTree, EdgeCasesTree, EmptyKeyTree }

InitOpen == InitApp(OpenTrees) /\ area_height = ViewportHeight /\ pc = "draw"

\* The keys that move the cursor, open the row under it, leave the form and
\* submit it as it was opened.
NextOpen ==
    \/ Draw
    \/ MoveDown
    \/ MoveUp
    \/ EditExisting
    \/ Escape
    \/ SubmitUpdate

SpecOpen == InitOpen /\ [][NextOpen]_vars

-----------------------------------------------------------------------------
(* Depth-first pre-order of a document, stated on paths: a node is named   *)
(* by the zero-based child indices leading to it from the root.            *)

\* The children of a value, in insertion / index order.
Children(v) ==
    IF is_object(v) THEN [i \in 1..Len(v.e) |-> v.e[i].v]
    ELSE IF is_array(v) THEN v.e
    ELSE <<>>

RECURSIVE PathsOf(_)
\* The paths of all non-root nodes under v.
PathsOf(v) ==
    UNION { { <<i - 1>> \o q : q \in {<<>>} \cup PathsOf(Children(v)[i]) }
            : i \in 1..Len(Children(v)) }

Front(p) == SubSeq(p, 1, Len(p) - 1)

\* p comes before q in pre-order: an ancestor before its descendants, an
\* earlier sibling's subtree before a later sibling's.
PreBefore(p, q) ==
    /\ p # q
    /\ \/ Len(p) < Len(q) /\ SubSeq(q, 1, Len(p)) = p
       \/ \E j \in 1..Min(Len(p), Len(q)) :
             /\ SubSeq(p, 1, j - 1) = SubSeq(q, 1, j - 1)
             /\ p[j] < q[j]

\* The zero-based position of the node at p in the pre-order of tree.
PreorderRank(tree, p) == Cardinality({ q \in PathsOf(tree) : PreBefore(q, p) })

\* The path of the node at zero-based position i of the pre-order.
PreorderPath(tree, i) == CHOOSE p \in PathsOf(tree) : PreorderRank(tree, p) = i

\* The key a node is held under: its entry's key in an object, no key in an array.
KeyAt(tree, p) ==
    LET parent == NodeAt(tree, Front(p))
    IN IF is_object(parent) THEN parent.e[p[Len(p)] + 1].k ELSE <<>>

\* The node at p is an element of an array and is itself an object or array.
ContainerInArray(tree, p) ==
    is_array(NodeAt(tree, Front(p))) /\ IsContainer(NodeAt(tree, p))

\* Number of such nodes among the first n rows of the document.
ContainersInArraysBefore(tree, n) ==
    Cardinality({ p \in PathsOf(tree) :
                    PreorderRank(tree, p) < n /\ ContainerInArray(tree, p) })

\* C3: the rows insert_data_to_tree produces for a document are exactly its
\* non-root nodes in depth-first pre-order, one row per node: the row at a
\* node's pre-order position shows the node's key ("" for an array element),
\* the node's scalar (nothing for an object or array) and the node's depth as
\* indentation, the root's children being at 1.
C3_RowsArePreorder ==
    (last.op = "flatten") =>
        /\ Len(last.res.pairs) = Cardinality(PathsOf(json))
        /\ last.res.count = Cardinality(PathsOf(json))
        /\ \A p \in PathsOf(json) :
              LET row == last.res.pairs[PreorderRank(json, p) + 1]
                  node == NodeAt(json, p)
              IN /\ row.indentation = Len(p)
                 /\ row.key = KeyAt(json, p)
                 /\ row.value = (IF IsContainer(node) THEN None ELSE Some(node))

\* C3 witness: the array-root document with an object element has been
\* flattened; the object element has its own row directly followed by its
\* first entry's row.
C3_Witness ==
    /\ last.op = "flatten" /\ json = ArrayRootTree
    /\ Len(last.res.pairs) = 9
    /\ last.res.pairs[3].value = None /\ last.res.pairs[3].indentation = 1
    /\ last.res.pairs[4].key = T1("k") /\ last.res.pairs[4].indentation = 2

\* The node that row i of the document displays.
RowNode(tree, i) == NodeAt(tree, PreorderPath(tree, i))

CountedRows(tree) == RowsOf(tree) - ContainersInArraysBefore(tree, RowsOf(tree))

\* The path of the node at position i when array-held objects and arrays
\* are passed over.
CountedPath(tree, i) ==
    CHOOSE p \in PathsOf(tree) :
        /\ ~ContainerInArray(tree, p)
        /\ PreorderRank(tree, p) - ContainersInArraysBefore(tree, PreorderRank(tree, p)) = i

\* The (parent container, child index) pair of a resolver result, as one path.
PairOf(res) == IF res.some THEN Some(res.ref \o <<res.index>>) ELSE None

-----------------------------------------------------------------------------
(* The edit submissions.  last.pre is the state a submission was given; the *)
(* container and the position it worked on are those the resolver gives    *)
(* for that state.                                                         *)

\* A submission that passed validation was handled last.
Submitted(op) == last.op = op /\ last.outcome # "rejected"

PreResolved == get_nested_object_to_insert_into(last.pre.steps, last.pre.json)
\* The container the submission worked on, before and after it.
PreParent == NodeAt(last.pre.json, PreResolved.ref)
PostParent == NodeAt(json, PreResolved.ref)

\* The cursor was on entry k (zero-based) of an object.
OnObjectEntry ==
    /\ PreResolved.some /\ is_object(PreParent)
    /\ PreResolved.index < Len(PreParent.e)

KeyPresent(entries, key) == KeyPos(entries, key) # 0

\* C4: an insert submitted with the cursor on entry k of an object with n >= 1
\* entries (the last entry and n = 1 included) and a key the object does not
\* hold puts the new key at position k+1, and the n entries keep their keys,
\* values and relative order.
C4_InsertKeepsOrder ==
    (/\ Submitted("insert") /\ OnObjectEntry
     /\ ~KeyPresent(PreParent.e, last.pre.key_input)
     /\ CoerceForInsert(last.pre.value_input).ok) =>
        /\ last.outcome = "done"
        /\ Len(PostParent.e) = Len(PreParent.e) + 1
        /\ PostParent.e[PreResolved.index + 2].k = last.pre.key_input
        /\ RemoveAt(PostParent.e, PreResolved.index + 2) = PreParent.e

\* C5: an update submitted on entry k of an object with a key text other than
\* the entry's key leaves the object with as many entries, the new key at
\* position k with the coerced value, and every other entry as it was.
C5_RenameKeepsPosition ==
    (/\ Submitted("update") /\ OnObjectEntry
     /\ last.pre.key_input # PreParent.e[PreResolved.index + 1].k
     /\ CoerceForUpdate(last.pre.value_input).ok) =>
        /\ last.outcome = "done"
        /\ Len(PostParent.e) = Len(PreParent.e)
        /\ PostParent.e[PreResolved.index + 1] =
               KV(last.pre.key_input, CoerceForUpdate(last.pre.value_input).value)
        /\ \A j \in 1..Len(PreParent.e) :
              j # PreResolved.index + 1 => PostParent.e[j] = PreParent.e[j]

\* C6: an update submitted on entry k of an object with the entry's own key
\* replaces that entry's value by the coerced value of the value text; the
\* object's keys, its other entries and the rest of the tree are as they were.
C6_UpdateValueOnly ==
    (/\ Submitted("update") /\ OnObjectEntry
     /\ last.pre.key_input = PreParent.e[PreResolved.index + 1].k) =>
        /\ last.outcome = "done"
        /\ CoerceForUpdate(last.pre.value_input).ok
        /\ json = ReplaceAt(last.pre.json, PreResolved.ref,
                    Obj([PreParent.e EXCEPT ![PreResolved.index + 1].v =
                            CoerceForUpdate(last.pre.value_input).value]))

\* The value a submission stored: under the submitted key in an object, at the
\* new element's place in an array.
StoredValue ==
    IF is_object(PreParent)
    THEN PostParent.e[KeyPos(PostParent.e, last.pre.key_input)].v
    ELSE IF last.op = "insert" THEN PostParent.e[PreResolved.index + 2]
    ELSE PostParent.e[PreResolved.index + 1]

\* The submission's position and key are ones where storing goes well: an
\* array element, or an object entry with (insert) a new key in an object of
\* two or more entries, (update) the entry's own key or a new key.
EditWellPlaced ==
    /\ PreResolved.some /\ IsContainer(PreParent)
    /\ PreResolved.index < Len(PreParent.e)
    /\ is_object(PreParent) =>
          IF last.op = "insert"
          THEN Len(PreParent.e) >= 2 /\ ~KeyPresent(PreParent.e, last.pre.key_input)
          ELSE \/ last.pre.key_input = PreParent.e[PreResolved.index + 1].k
               \/ ~KeyPresent(PreParent.e, last.pre.key_input)

\* C7: the value stored for value text t, by insert and by update, is a Number
\* whenever t parses as a 64-bit float; otherwise the Bool for "true" or
\* "false"; otherwise Null for "null" on update, the String "null" on insert;
\* otherwise the String t.
C7_Coercion ==
    ((Submitted("insert") \/ Submitted("update")) /\ EditWellPlaced) =>
        /\ last.outcome = "done"
        /\ LET t == last.pre.value_input
           IN IF ParsesAsF64(t) THEN StoredValue.t = "num"
              ELSE IF t \in {TRUE_TEXT, FALSE_TEXT} THEN StoredValue = Bool(t = TRUE_TEXT)
              ELSE IF t = NULL_TEXT /\ last.op = "update" THEN StoredValue = Null
              ELSE StoredValue = Str(t)

\* C8: no submission aborts the program.
C8_NoEditIsFatal ==
    (last.op \in {"insert", "update"}) => (last.outcome # "panic" /\ ~panicked)

\* The validation's case: the resolved parent is an object and the key or the
\* value text is empty, or it is an array and the value text is empty.
RequiredInputEmpty ==
    /\ PreResolved.some
    /\ \/ is_object(PreParent)
          /\ (last.pre.key_input = <<>> \/ last.pre.value_input = <<>>)
       \/ is_array(PreParent) /\ last.pre.value_input = <<>>

\* C9: an insert or update submitted in the validation's case leaves the tree
\* unchanged, reports no message and leaves the screen, the edit mode and both
\* inputs as they were.
C9_ValidationSilentNoOp ==
    (last.op \in {"insert", "update"} /\ RequiredInputEmpty) =>
        /\ last.outcome = "rejected" /\ ~panicked
        /\ json = last.pre.json
        /\ message_to_report = last.pre.message_to_report
        /\ current_screen = last.pre.current_screen
        /\ editing_mode = last.pre.editing_mode
        /\ key_input = last.pre.key_input
        /\ value_input = last.pre.value_input

\* C9 witness: an update of an array element was submitted with the value
\* text emptied, and an insert into an object with a key but no value text.
C9_Witness ==
    /\ last.op \in {"insert", "update"} /\ RequiredInputEmpty
    /\ last.outcome = "rejected"
    /\ \/ last.op = "update" /\ is_array(PreParent) /\ last.pre.value_input = <<>>
       \/ last.op = "insert" /\ is_object(PreParent)
          /\ last.pre.key_input # <<>> /\ last.pre.value_input = <<>>
    /\ current_screen = "Editing" /\ json = last.pre.json

\* C10: for every document and every position from the number of its rows on,
\* get_nested_object_to_insert_into returns (None, 0), and an insert submitted
\* at such a position leaves the tree unchanged.
C10_OutOfRangeResolve ==
    /\ \A k \in RowsOf(json)..(RowsOf(json) + MaxOver) :
          LET r == get_nested_object_to_insert_into(k, json)
          IN ~r.some /\ r.index = 0
    /\ (Submitted("insert") /\ last.pre.steps >= RowsOf(last.pre.json)) =>
          ~PreResolved.some /\ json = last.pre.json

\* C10 witness: an insert with a key and a value was submitted on an empty
\* root, where position 0 is past the rows; it returned and the root is empty.
C10_Witness ==
    /\ Submitted("insert") /\ last.outcome = "done"
    /\ last.pre.json \in {Obj(<<>>), Arr(<<>>)}
    /\ last.pre.steps >= RowsOf(last.pre.json)
    /\ last.pre.key_input # <<>> /\ last.pre.value_input # <<>>
    /\ json = last.pre.json

-----------------------------------------------------------------------------
(* The viewport under the six movements (SpecView)                         *)

Max(a, b) == IF a >= b THEN a ELSE b

\* C11: with at least one row and a pairs area of at least one line, in
\* every state reached from cursor 0 and scroll 0 by the six movements the
\* cursor row is one of the viewport_lines_count rows that start at
\* vertical_scroll.
C11_CursorInsideViewport ==
    (lines_count > 0 /\ viewport_lines_count >= 1)
    => /\ vertical_scroll <= line_at_cursor
       /\ line_at_cursor <= vertical_scroll + viewport_lines_count - 1

\* A movement has put the cursor on the bottom line of a scrolled window, and
\* another one on the top line of a scrolled window.
C11_Witness ==
    /\ lines_count > 0 /\ viewport_lines_count > 1
    /\ vertical_scroll > 0
    /\ \/ last.op = "MoveUp" /\ line_at_cursor = vertical_scroll
       \/ last.op = "MoveToBottom"
          /\ line_at_cursor = vertical_scroll + viewport_lines_count - 1

\* C12: on a document with rows the cursor stays on a row after every
\* movement; MoveDown on the last row and MoveUp on row 0 leave it where it
\* is, and 100 MoveDown actions on the 30-row document end on row 29.
C12_CursorClamped ==
    lines_count > 0
    => /\ line_at_cursor \in 0..(lines_count - 1)
       /\ (last.op = "MoveDown" /\ last.cursor = lines_count - 1)
              => line_at_cursor = last.cursor
       /\ (last.op = "MoveUp" /\ last.cursor = 0) => line_at_cursor = 0
       /\ (last.op = "MoveDown" /\ last.streak = 100 /\ json = TestLinesCountTree)
              => line_at_cursor = 29

\* The hundredth MoveDown on the 30-row document has been handled.
C12_Witness ==
    /\ json = TestLinesCountTree /\ lines_count = 30
    /\ last.op = "MoveDown" /\ last.streak = 100 /\ last.cursor = 29
    /\ line_at_cursor = 29

\* C13: a MoveHalfPageDown from a row less than half a page above the last
\* one puts the cursor on the last row and the scroll at
\* max(0, lines_count - viewport_lines_count).
C13_HalfPageDownOvershoot ==
    (/\ last.op = "MoveHalfPageDown"
     /\ lines_count > 0
     /\ last.cursor + viewport_lines_count \div 2 > lines_count - 1)
    => /\ line_at_cursor = lines_count - 1
       /\ vertical_scroll = Max(0, lines_count - viewport_lines_count)

\* The first k MoveHalfPageDown actions of a run on the 100-row document in
\* the 20-line pairs area have been handled.
ScenarioEAfter(k) ==
    /\ lines_count = 100 /\ viewport_lines_count = 20
    /\ last.op = "MoveHalfPageDown" /\ last.streak = k

\* C14: Scenario E as stated: after three MoveHalfPageDown actions the cursor
\* is on row 30 and the scroll is 20, the scroll never having passed
\* lines_count - viewport_lines_count.
C14_ScenarioE ==
    /\ ScenarioEAfter(3) => (line_at_cursor = 30 /\ vertical_scroll = 20)
    /\ \A k \in 1..3 :
          ScenarioEAfter(k) => vertical_scroll <= lines_count - viewport_lines_count

\* C14: Scenario E as the program runs it: after three MoveHalfPageDown
\* actions the cursor is on row 30 and the scroll is 30, the scroll never
\* having passed lines_count - viewport_lines_count.
C14_ScenarioEScrollsWithCursor ==
    /\ ScenarioEAfter(3) => (line_at_cursor = 30 /\ vertical_scroll = 30)
    /\ \A k \in 1..3 :
          ScenarioEAfter(k) => vertical_scroll <= lines_count - viewport_lines_count

C14_Witness == ScenarioEAfter(3) /\ line_at_cursor = 30

-----------------------------------------------------------------------------
(* Searching (SpecSearch)                                                  *)

\* text contains pattern when letter case is ignored on both
ContainsIgnoringCase(text, pattern) ==
    Contains(to_lowercase(text), to_lowercase(pattern))

\* Row i (from 1) of the flattened rows matches the query.
RowMatchesQuery(i, query) ==
    \/ ContainsIgnoringCase(json_pairs[i].key, query)
    \/ /\ json_pairs[i].value # None
       /\ ContainsIgnoringCase(ValueToString(json_pairs[i].value[1]), query)

Recorded(matches) == { matches[k] : k \in 1..Len(matches) }

\* C15: once the rows are drawn with a non-empty query, a row's index is in
\* search_matches exactly when its key or its stringified value contains the
\* query, letter case ignored on both.
C15_MatchesAreCaseInsensitive ==
    (pc = "event" /\ search_widget # <<>> /\ lines_count > 0)
    => \A i \in 1..Len(json_pairs) :
          (i - 1) \in Recorded(search_matches) <=> RowMatchesQuery(i, search_widget)

\* C16: GoToNextMatch with a non-empty query puts the cursor on the smallest
\* recorded match above the row it was on; with no such match it leaves
\* cursor and scroll alone and reports "No more matches", whatever matches lie
\* before the cursor.
C16_NextMatch ==
    (last.op = "GoToNextMatch" /\ last.pre.search_widget # <<>>)
    => LET later == { m \in Recorded(last.pre.search_matches) :
                        m > last.pre.line_at_cursor }
       IN IF later # {}
          THEN /\ line_at_cursor \in later
               /\ \A m \in later : line_at_cursor <= m
          ELSE /\ line_at_cursor = last.pre.line_at_cursor
               /\ vertical_scroll = last.pre.vertical_scroll
               /\ message_to_report = "No more matches"

\* GoToNextMatch was pressed on the last of several matches.
C16_Witness ==
    /\ last.op = "GoToNextMatch"
    /\ Len(last.pre.search_matches) > 1
    /\ last.pre.line_at_cursor = last.pre.search_matches[Len(last.pre.search_matches)]
    /\ message_to_report = "No more matches"

\* C17: GoToPrevMatch with a non-empty query puts the cursor on the largest
\* recorded match below the row it was on; with no such match it leaves
\* cursor and scroll alone and reports "No previous matches".
C17_PrevMatch ==
    (last.op = "GoToPrevMatch" /\ last.pre.search_widget # <<>>)
    => LET earlier == { m \in Recorded(last.pre.search_matches) :
                          m < last.pre.line_at_cursor }
       IN IF earlier # {}
          THEN /\ line_at_cursor \in earlier
               /\ \A m \in earlier : line_at_cursor >= m
          ELSE /\ line_at_cursor = last.pre.line_at_cursor
               /\ vertical_scroll = last.pre.vertical_scroll
               /\ message_to_report = "No previous matches"

\* GoToPrevMatch was pressed with several matches before the cursor.
C17_Witness ==
    /\ last.op = "GoToPrevMatch"
    /\ Cardinality({ m \in Recorded(last.pre.search_matches) :
                       m < last.pre.line_at_cursor }) > 1
    /\ line_at_cursor < last.pre.line_at_cursor

-----------------------------------------------------------------------------
(* The flattener's count, Scenario A, and documents it aborts on (SpecTree) *)

\* C18: the count insert_data_to_tree returns is the number of rows it
\* appended, those of all nested containers included; it is 30 for the
\* document of test_lines_count.
C18_CountIsRowsAppended ==
    (last.op = "flatten" /\ last.res.ok)
    => /\ last.res.count = Len(last.res.pairs)
       /\ json = TestLinesCountTree => last.res.count = 30

\* The document of test_lines_count has been flattened into 30 rows.
C18_Witness ==
    /\ last.op = "flatten" /\ json = TestLinesCountTree
    /\ Len(last.res.pairs) = 30 /\ last.res.count = 30

\* The rows Scenario A lists: a:1, b:, c:2, d:3, e:, 10, 20
ScenarioARows ==
    << ValuePair(1, T1("a"), Some(PosInt(1)), FALSE),
       ValuePair(1, T1("b"), None, FALSE),
       ValuePair(2, T1("c"), Some(PosInt(2)), FALSE),
       ValuePair(2, T1("d"), Some(PosInt(3)), FALSE),
       ValuePair(1, T1("e"), None, FALSE),
       ValuePair(2, <<>>, Some(PosInt(10)), TRUE),
       ValuePair(2, <<>>, Some(PosInt(20)), TRUE) >>

\* C19: Scenario A as stated: the flattener gives the seven listed rows and
\* returns a count of 6.
C19_ScenarioA ==
    (last.op = "flatten" /\ json = ScenarioA)
    => last.res.ok /\ last.res.pairs = ScenarioARows /\ last.res.count = 6

\* C19: Scenario A as the program runs it: the flattener gives the seven
\* listed rows and returns a count of 7.
C19_ScenarioASevenRows ==
    (last.op = "flatten" /\ json = ScenarioA)
    => last.res.ok /\ last.res.pairs = ScenarioARows /\ last.res.count = 7

C19_Witness ==
    last.op = "flatten" /\ json = ScenarioA /\ Len(last.res.pairs) = 7

\* C20: insert_data_to_tree returns for every document App::new accepts, a
\* scalar one included.
C20_FlattenNeverFails == last.op = "flatten" => last.res.ok

-----------------------------------------------------------------------------
(* The rows an event is handled with (Spec)                                *)

\* C21: whenever an event is about to be handled on a non-empty document,
\* json_pairs and lines_count are the flattening of the tree as the earlier
\* submissions left it.
C21_RowsAreCurrent ==
    (pc = "event" /\ ~panicked /\ IsContainer(json) /\ Len(json.e) > 0)
    => /\ json_pairs = insert_data_to_tree(json, 0).pairs
       /\ lines_count = insert_data_to_tree(json, 0).count

\* The draw after a submission that changed a non-empty tree has been made.
C21_Witness ==
    /\ pc = "event" /\ ~panicked
    /\ last.op \in {"insert", "update"} /\ last.outcome = "done"
    /\ last.pre.json_pairs # <<>>
    /\ json # last.pre.json
    /\ json_pairs # last.pre.json_pairs

-----------------------------------------------------------------------------
(* Rows of empty containers and of array elements (SpecTree)               *)

\* The node at p is an object or array without entries or elements.
EmptyContainer(tree, p) ==
    IsContainer(NodeAt(tree, p)) /\ Len(NodeAt(tree, p).e) = 0

\* C28: an empty object or array, at any depth, gives one header row without
\* a value and no row under it; {"arr": []} flattens to the one row of arr.
C28_EmptyContainerOneRow ==
    (last.op = "flatten" /\ last.res.ok)
    => /\ \A p \in PathsOf(json) :
             EmptyContainer(json, p)
             => LET i == PreorderRank(json, p) + 1
                IN /\ last.res.pairs[i].value = None
                   /\ last.res.pairs[i].indentation = Len(p)
                   /\ \/ i = Len(last.res.pairs)
                      \/ last.res.pairs[i + 1].indentation <= Len(p)
       /\ json = ScenarioD
             => /\ last.res.pairs = <<ValuePair(1, <<"a", "r", "r">>, None, FALSE)>>
                /\ last.res.count = 1

\* Scenario D has been flattened, and so has a document that holds an empty
\* object and an empty array two levels down.
C28_Witness ==
    /\ last.op = "flatten"
    /\ \/ json = ScenarioD /\ Len(last.res.pairs) = 1
       \/ json = TestLinesCountTree /\ Len(last.res.pairs) = 30

\* The node at p is an element of an array.
ArrayElement(tree, p) == is_array(NodeAt(tree, Front(p)))

\* C29 as stated: no row of an array element has the key "" and no value.
C29_NoBlankRowInArray ==
    (last.op = "flatten" /\ last.res.ok)
    => \A p \in PathsOf(json) :
          ArrayElement(json, p)
          => LET row == last.res.pairs[PreorderRank(json, p) + 1]
             IN ~(row.key = <<>> /\ row.value = None)

\* C29: the row of an array element has the key ""; it has no value exactly
\* when the element is itself an object or array, and holds the element
\* when it is a scalar.
C29_BlankRowIsContainerElement ==
    (last.op = "flatten" /\ last.res.ok)
    => \A p \in PathsOf(json) :
          ArrayElement(json, p)
          => LET row == last.res.pairs[PreorderRank(json, p) + 1]
             IN /\ row.key = <<>>
                /\ row.value = None <=> IsContainer(NodeAt(json, p))
                /\ ~IsContainer(NodeAt(json, p)) => row.value = Some(NodeAt(json, p))

\* A document whose array holds a scalar and an object has been flattened.
C29_Witness ==
    /\ last.op = "flatten" /\ json = ArrayFlattenTree
    /\ last.res.pairs[1].key = <<>> /\ last.res.pairs[1].value # None
    /\ last.res.pairs[3].key = <<>> /\ last.res.pairs[3].value = None

-----------------------------------------------------------------------------
(* Submissions with the cursor on an element of an array (Spec)            *)

\* The path of the row the cursor was on when the submission was made.
PreCursorPath == PreorderPath(last.pre.json, last.pre.line_at_cursor)

\* The submission was made with the cursor on a scalar element of an array
\* and a value text that is not empty.
OnScalarElement ==
    /\ last.pre.line_at_cursor < Len(last.pre.json_pairs)
    /\ ArrayElement(last.pre.json, PreCursorPath)
    /\ ~IsContainer(NodeAt(last.pre.json, PreCursorPath))
    /\ last.pre.value_input # <<>>

\* The array the cursor's element belongs to, before the submission.
PreArray == NodeAt(last.pre.json, Front(PreCursorPath))

\* The zero-based index k of the cursor's element in its array.
PreElementIndex == PreCursorPath[Len(PreCursorPath)]

\* C22: an insert submitted with the cursor on the scalar element k of an
\* array and a non-empty value text puts the coerced value at index k + 1,
\* whatever the key text; the array is one longer, its other elements and the
\* rest of the tree are as they were.
C22_InsertIntoArray ==
    (Submitted("insert") /\ OnScalarElement) =>
        /\ last.outcome = "done"
        /\ CoerceForInsert(last.pre.value_input).ok
        /\ json = ReplaceAt(last.pre.json, Front(PreCursorPath),
                    Arr(InsertAt(PreArray.e, PreElementIndex + 2,
                                 CoerceForInsert(last.pre.value_input).value)))

\* C22 for the value texts whose conversion returns.
C22_InsertIntoArrayWhenCoerced ==
    (Submitted("insert") /\ OnScalarElement
       /\ CoerceForInsert(last.pre.value_input).ok) =>
        /\ last.outcome = "done"
        /\ json = ReplaceAt(last.pre.json, Front(PreCursorPath),
                    Arr(InsertAt(PreArray.e, PreElementIndex + 2,
                                 CoerceForInsert(last.pre.value_input).value)))

\* C23: an update submitted with the cursor on a scalar element of an array
\* replaces that element by the coerced value; the array is as long as it
\* was, its other elements and the rest of the tree are as they were.
C23_UpdateArrayElement ==
    (Submitted("update") /\ OnScalarElement) =>
        /\ last.outcome = "done"
        /\ CoerceForUpdate(last.pre.value_input).ok
        /\ json = ReplaceAt(last.pre.json, PreCursorPath,
                            CoerceForUpdate(last.pre.value_input).value)

\* C23 for the value texts whose conversion returns.
C23_UpdateArrayElementWhenCoerced ==
    (Submitted("update") /\ OnScalarElement
       /\ CoerceForUpdate(last.pre.value_input).ok) =>
        /\ last.outcome = "done"
        /\ json = ReplaceAt(last.pre.json, PreCursorPath,
                            CoerceForUpdate(last.pre.value_input).value)

-----------------------------------------------------------------------------
(* Jumps, half pages up and the scroll thresholds (SpecView)               *)

\* C24: on a document with rows MoveToTop gives cursor 0 and scroll 0 and
\* MoveToBottom gives cursor total - 1 and scroll max(0, total - height); on
\* a document without rows both leave cursor and scroll as they were.
C24_JumpToTopAndBottom ==
    [][/\ MoveToTop =>
            IF lines_count > 0
            THEN line_at_cursor' = 0 /\ vertical_scroll' = 0
            ELSE UNCHANGED <<line_at_cursor, vertical_scroll>>
       /\ MoveToBottom =>
            IF lines_count > 0
            THEN /\ line_at_cursor' = lines_count - 1
                 /\ vertical_scroll' = Max(0, lines_count - viewport_lines_count)
            ELSE UNCHANGED <<line_at_cursor, vertical_scroll>>]_vars

\* MoveToBottom has put the window on the last rows of a document longer than
\* the window.
C24_Witness ==
    /\ last.op = "MoveToBottom" /\ pc = "draw"
    /\ lines_count > viewport_lines_count /\ viewport_lines_count > 0
    /\ line_at_cursor = lines_count - 1
    /\ vertical_scroll = lines_count - viewport_lines_count

\* C25: MoveHalfPageUp with the cursor at most half a window from the top
\* does what MoveToTop does, cursor 0 and scroll 0; from further down it
\* lowers the cursor by half a window and the scroll by half a window, not
\* below 0.
C25_HalfPageUp ==
    [][MoveHalfPageUp =>
         IF line_at_cursor <= viewport_lines_count \div 2
         THEN /\ line_at_cursor' = 0 /\ vertical_scroll' = 0
              /\ \/ lines_count > 0
                 \/ UNCHANGED <<line_at_cursor, vertical_scroll>>
         ELSE /\ line_at_cursor' = line_at_cursor - viewport_lines_count \div 2
              /\ vertical_scroll' =
                     Max(0, vertical_scroll - viewport_lines_count \div 2)]_vars

\* MoveHalfPageUp has taken the cursor and the window half a window up, and
\* the window did not reach the top.
C25_Witness ==
    /\ last.op = "MoveHalfPageUp" /\ pc = "draw"
    /\ viewport_lines_count \div 2 > 0
    /\ line_at_cursor = last.cursor - viewport_lines_count \div 2
    /\ vertical_scroll > 0

\* C26: MoveDown leaves the scroll as it was or raises it by 1, and raises it
\* only with the new cursor at or past scroll + height - 5; MoveUp leaves it
\* as it was or lowers it by 1, and lowers it only with the new cursor at or
\* before scroll + 5.
C26_ScrollOnlyNearEdge ==
    [][/\ MoveDown =>
            \/ vertical_scroll' = vertical_scroll
            \/ /\ vertical_scroll' = vertical_scroll + 1
               /\ line_at_cursor' >= vertical_scroll + viewport_lines_count - 5
       /\ MoveUp =>
            \/ vertical_scroll' = vertical_scroll
            \/ /\ vertical_scroll' = vertical_scroll - 1
               /\ line_at_cursor' <= vertical_scroll + 5]_vars

\* A run of MoveDown from the first row has raised the scroll, the cursor
\* staying 5 rows above the bottom of the window it entered.
C26_Witness ==
    /\ last.op = "MoveDown" /\ pc = "draw"
    /\ last.streak = line_at_cursor /\ line_at_cursor = last.cursor + 1
    /\ viewport_lines_count > 5
    /\ vertical_scroll > 1
    /\ line_at_cursor = (vertical_scroll - 1) + viewport_lines_count - 5

-----------------------------------------------------------------------------
(* The order of the recorded matches (SpecSearch)                          *)

\* C27: search_matches is strictly increasing in row index: the matches are
\* in row order and no row is recorded twice, each entry being a row drawn.
C27_MatchesStrictlyIncreasing ==
    /\ \A k \in 1..(Len(search_matches) - 1) :
          search_matches[k] < search_matches[k + 1]
    /\ \A k \in 1..Len(search_matches) : search_matches[k] < Len(json_pairs)

\* The rows were drawn with the query "a": row 0 holds it in its key and in
\* its value and is recorded once, before rows 2 and 5.
C27_Witness ==
    /\ pc = "event" /\ search_widget = <<"a">>
    /\ search_matches = <<0, 2, 5>>
    /\ Len(json_pairs) > 0 /\ json_pairs[1].value # None
    /\ Contains(to_lowercase(json_pairs[1].key), search_widget)
    /\ Contains(to_lowercase(ValueToString(json_pairs[1].value[1])), search_widget)

-----------------------------------------------------------------------------
(* Opening the row under the cursor for editing                            *)

\* The row the cursor was on when the request was made.
PreCursorRow == last.pre.json_pairs[last.pre.line_at_cursor + 1]

\* The request was made with the cursor on a row that shows a value.
OnLeafRow ==
    /\ last.pre.line_at_cursor < Len(last.pre.json_pairs)
    /\ PreCursorRow.value # None

\* C30: start_editing_existing_value with the cursor on a leaf row opens the
\* Editing screen in Editing mode with the inputs filled from that row: the
\* key input holds the row's key for an object entry and is empty, the value
\* input focused, for an array element; the value input holds the row's value
\* as text, a string by its contents, a number, boolean or null by its
\* literal.
C30_EditPrefillsFromRow ==
    (last.op = "EditExisting" /\ OnLeafRow) =>
        /\ current_screen = "Editing" /\ editing_mode = "Editing"
        /\ value_input = ValueToInputText(PreCursorRow.value[1])
        /\ IF ArrayElement(last.pre.json, PreCursorPath)
           THEN /\ key_input = <<>>
                /\ currently_editing = Some("Value")
                /\ value_focused /\ ~key_focused
           ELSE /\ key_input = PreCursorRow.key
                /\ currently_editing = Some("Key")

-----------------------------------------------------------------------------
(* Requests to edit a row that shows no value (Spec)                       *)

-----------------------------------------------------------------------------
(* From the cursor's row to the node, and the two resolvers (SpecTree)     *)

\* The row of the document the lookup was made for.
LookedUpRow == insert_data_to_tree(json, 0).pairs[last.row + 1]

\* C32: for a leaf row i, the lookup at the adjusted index (i less the rows
\* above it that have an empty key and no value) returns the key and the
\* value shown on row i: the entry's key for an object entry, no key for an
\* array element.
C32_AdjustedLookupGivesRow ==
    (last.op = "lookup_row" /\ IsContainer(json) /\ LookedUpRow.value # None) =>
        /\ last.res.value = LookedUpRow.value
        /\ last.res.key = IF ArrayElement(json, PreorderPath(json, last.row))
                          THEN None ELSE Some(LookedUpRow.key)

\* C32 on the documents in which no object entry with the key "" holds an
\* object or array.
NoEmptyKeyHeader(tree) ==
    \A p \in PathsOf(tree) :
        (IsContainer(NodeAt(tree, p)) /\ ~ArrayElement(tree, p)) => KeyAt(tree, p) # <<>>

C32_AdjustedLookupGivesRowWithoutEmptyKeyHeader ==
    (last.op = "lookup_row" /\ IsContainer(json) /\ LookedUpRow.value # None
       /\ NoEmptyKeyHeader(json)) =>
        /\ last.res.value = LookedUpRow.value
        /\ last.res.key = IF ArrayElement(json, PreorderPath(json, last.row))
                          THEN None ELSE Some(LookedUpRow.key)

\* The child of a container at a zero-based index.
ChildOf(parent, index) ==
    IF is_object(parent) THEN parent.e[index + 1].v ELSE parent.e[index + 1]

\* C33: for every document and step count, get_current_value_at_position and
\* get_nested_object_to_insert_into both resolve or both do not; when they do
\* they give the same parent container and the same child index, and the
\* value the former returns is the parent's child at that index.
C33_ResolversAgree ==
    (last.op = "lookup") =>
        LET r == get_nested_object_to_insert_into(last.steps, json)
        IN /\ last.res.some = r.some
           /\ (last.res.value # None) = r.some
           /\ r.some =>
                 /\ last.res.ref = r.ref
                 /\ last.res.index = r.index
                 /\ IsContainer(NodeAt(json, r.ref))
                 /\ r.index < Len(NodeAt(json, r.ref).e)
                 /\ last.res.value = Some(ChildOf(NodeAt(json, r.ref), r.index))
           /\ ~r.some => (last.res.index = 0 /\ r.index = 0)

\* Both resolvers were given a position inside an object nested in an array
\* and gave that object and the entry's index.
C33_Witness ==
    /\ last.op = "lookup" /\ json = ArrayRootTree /\ last.steps = 4
    /\ last.res.some /\ last.res.ref = <<2, 1>> /\ last.res.index = 0
    /\ get_nested_object_to_insert_into(4, json).ref = <<2, 1>>
    /\ last.res.value # None

-----------------------------------------------------------------------------
(* What an insert leaves of the tree, and the edit round trip              *)

\* The insert found a parent and was given the inputs the parent requires.
InsertAccepted ==
    /\ Submitted("insert") /\ PreResolved.some /\ IsContainer(PreParent)
    /\ last.pre.value_input # <<>>
    /\ is_object(PreParent) => last.pre.key_input # <<>>

\* C34: an insert given a resolved parent and non-empty inputs adds one entry
\* to that parent and changes nothing else: the parent has one entry more,
\* taking the new entry away gives the entries it had, in their order, and
\* the rest of the tree is as it was, whatever the key text.
C34_InsertOnlyAdds ==
    InsertAccepted =>
        /\ last.outcome = "done"
        /\ Len(PostParent.e) = Len(PreParent.e) + 1
        /\ \E j \in 1..Len(PostParent.e) : RemoveAt(PostParent.e, j) = PreParent.e
        /\ json = ReplaceAt(last.pre.json, PreResolved.ref, PostParent)

\* C34 for the inserts that returned.
C34_InsertOnlyAddsWhenReturned ==
    (InsertAccepted /\ last.outcome = "done") =>
        /\ Len(PostParent.e) = Len(PreParent.e) + 1
        /\ \E j \in 1..Len(PostParent.e) : RemoveAt(PostParent.e, j) = PreParent.e
        /\ json = ReplaceAt(last.pre.json, PreResolved.ref, PostParent)

\* What start_editing_existing_value found for the cursor the update was
\* submitted on.
PreOpened == get_current_value_at_position(last.pre.steps, last.pre.json)

\* The update was submitted on a leaf row with both inputs as
\* start_editing_existing_value filled them.
SubmittedAsOpened ==
    /\ last.op = "update" /\ OnLeafRow
    /\ PreOpened.value # None
    /\ last.pre.value_input = ValueToInputText(PreOpened.value[1])
    /\ last.pre.key_input = (IF PreOpened.key # None THEN PreOpened.key[1] ELSE <<>>)

\* C35: opening a leaf row for editing and submitting with both inputs as
\* they were filled leaves the tree equal to the tree before, the type of the
\* value included.
C35_EditRoundTrip ==
    SubmittedAsOpened => (last.outcome # "panic" /\ json = last.pre.json)

\* C35 for the rows whose value is not a string that reads as a number, a
\* boolean or null.
C35_EditRoundTripOfOtherValues ==
    (/\ SubmittedAsOpened
     /\ PreCursorRow.value = PreOpened.value
     /\ ~(PreOpened.value[1].t = "str"
            /\ CoerceForUpdate(PreOpened.value[1].s).value.t # "str")) =>
        (last.outcome # "panic" /\ json = last.pre.json)

-----------------------------------------------------------------------------
(* The subtraction in the last-entry test of the insert                    *)

\* The insert reached `index > map.len() - 2`: its value text was coerced
\* and the resolver gave an object.
ReachedLastEntryTest ==
    /\ Submitted("insert")
    /\ CoerceForInsert(last.pre.value_input).ok
    /\ PreResolved.some /\ is_object(PreParent)

\* C36: whenever the insert evaluates map.len() - 2 the object holds at least
\* two entries, so the unsigned subtraction does not go below 0.
C36_LastEntryTestNoUnderflow ==
    ReachedLastEntryTest => Len(PreParent.e) >= 2

-----------------------------------------------------------------------------
(* Screen, focus and edit mode                                             *)

\* C37: after every key event currently_editing is Some exactly when the
\* screen is Editing, and the edit mode is Editing only on the Editing
\* screen; on the other screens currently_editing is None and the mode is
\* Inserting.
C37_ScreenAndModeConsistent ==
    /\ current_screen \in {"ViewingFile", "Editing", "Searching"}
    /\ (currently_editing # None) <=> (current_screen = "Editing")
    /\ editing_mode = "Editing" => current_screen = "Editing"
    /\ current_screen # "Editing" =>
          (currently_editing = None /\ editing_mode = "Inserting")

\* An update submitted from the form in Editing mode returned to the viewing
\* screen.
C37_Witness ==
    /\ Submitted("update") /\ last.outcome = "done"
    /\ last.pre.current_screen = "Editing" /\ last.pre.editing_mode = "Editing"
    /\ last.pre.currently_editing # None
    /\ current_screen = "ViewingFile"
    /\ currently_editing = None /\ editing_mode = "Inserting"

-----------------------------------------------------------------------------
(* The scroll against the length of the document (SpecView)                *)

\* One of the six movements was handled last, in a window of at least one row.
AfterMovement ==
    /\ last.op \in {"MoveDown", "MoveUp", "MoveToTop", "MoveToBottom",
                    "MoveHalfPageDown", "MoveHalfPageUp"}
    /\ viewport_lines_count >= 1

\* C38: after every movement the scroll is at most max(0, total - height);
\* it is 0 while the whole document fits in the window.
C38_NoScrollPastContent ==
    AfterMovement => vertical_scroll <= Max(0, lines_count - viewport_lines_count)

-----------------------------------------------------------------------------
(* The cursor after a jump to a match (SpecSearch)                         *)

\* n or N moved the cursor to a match, from a cursor inside the window of a
\* pairs area of at least one row.
JumpedFromVisible ==
    /\ last.op \in {"GoToNextMatch", "GoToPrevMatch"}
    /\ viewport_lines_count >= 1
    /\ line_at_cursor # last.pre.line_at_cursor
    /\ last.pre.vertical_scroll <= last.pre.line_at_cursor
    /\ last.pre.line_at_cursor <= last.pre.vertical_scroll + viewport_lines_count - 1

\* C39: a jump to a match from a visible cursor leaves the cursor on one of
\* the rows vertical_scroll .. vertical_scroll + viewport_lines_count - 1.
C39_JumpKeepsCursorVisible ==
    JumpedFromVisible =>
        /\ vertical_scroll <= line_at_cursor
        /\ line_at_cursor <= vertical_scroll + viewport_lines_count - 1

\* C39 in a pairs area of four rows or more.
C39_JumpKeepsCursorVisibleFromFourRows ==
    (JumpedFromVisible /\ viewport_lines_count >= 4) =>
        /\ vertical_scroll <= line_at_cursor
        /\ line_at_cursor <= vertical_scroll + viewport_lines_count - 1

====
